---- MODULE Spec2Model ----
(***************************************************************************)
(* Model of the hybrid retrieval pipeline of src/module/rag_module.py      *)
(* (RAGPipeline.answer_with_trace and everything it calls).                *)
(*                                                                         *)
(* Conventions                                                             *)
(*  - A Python string is a sequence of text atoms: one-character strings, *)
(*    or a whole fixed literal (a header, an index name) as one atom.      *)
(*  - A Python metadata value is a record [t, n, s]: t is the Python type  *)
(*    ("none", "int", "str", "float", "bool"), n the number (floats in     *)
(*    units of 1/Scale), s the atoms of a str.                             *)
(*  - A Document is [page_content |-> string, metadata |-> function from   *)
(*    key names to values]; a key outside DOMAIN metadata is a missing     *)
(*    key.  Documents are values: every list element returned by an        *)
(*    upstream search is a fresh object, as the Pinecone client builds     *)
(*    them.                                                                *)
(***************************************************************************)
EXTENDS Integers, Sequences, FiniteSets, TLC

\* ------------------------------------------------------------------------
\* Bounds of the model (not program constants)
\* ------------------------------------------------------------------------
MaxDense == 2

MaxRerankPairs == 2

\* ------------------------------------------------------------------------
\* Python values
\* ------------------------------------------------------------------------
None == [t |-> "none", n |-> 0, s |-> <<>>]

PyInt(i) == [t |-> "int", n |-> i, s |-> <<>>]

PyStr(chars) == [t |-> "str", n |-> 0, s |-> chars]

PyFloat(units) == [t |-> "float", n |-> units, s |-> <<>>]

PyTrue == [t |-> "bool", n |-> 1, s |-> <<>>]

\* bool(v): None, 0, 0.0, False and "" are falsy
Truthy(v) ==
  CASE v.t = "none" -> FALSE
    [] v.t = "str" -> v.s # <<>>
    [] OTHER -> v.n # 0

DigitChars == <<"0", "1", "2", "3", "4", "5", "6", "7", "8", "9">>

IsDigit(c) == \E i \in 1..10 : DigitChars[i] = c

DigitVal(c) == (CHOOSE i \in 1..10 : DigitChars[i] = c) - 1

RECURSIVE NatStr(_)
NatStr(i) == IF i < 10 THEN <<DigitChars[i + 1]>>
             ELSE NatStr(i \div 10) \o <<DigitChars[(i % 10) + 1]>>

\* str(v) for the value kinds metadata identifiers take
Str(v) ==
  CASE v.t = "none" -> <<"N", "o", "n", "e">>
    [] v.t = "str" -> v.s
    [] v.t = "bool" -> IF v.n # 0 THEN <<"T", "r", "u", "e">> ELSE <<"F", "a", "l", "s", "e">>
    [] OTHER -> IF v.n < 0 THEN <<"-">> \o NatStr(0 - v.n) ELSE NatStr(v.n)

IsSpace(c) == c \in {" ", "\n", "\t"}

RECURSIVE LStrip(_)
LStrip(s) == IF s # <<>> /\ IsSpace(Head(s)) THEN LStrip(Tail(s)) ELSE s

RECURSIVE RStrip(_)
RStrip(s) == IF s # <<>> /\ IsSpace(s[Len(s)]) THEN RStrip(SubSeq(s, 1, Len(s) - 1)) ELSE s

\* str.strip()
Strip(s) == RStrip(LStrip(s))

RECURSIVE DigitsVal(_)
DigitsVal(s) == IF s = <<>> THEN 0
                ELSE 10 * DigitsVal(SubSeq(s, 1, Len(s) - 1)) + DigitVal(s[Len(s)])

AllDigits(s) == s # <<>> /\ \A i \in 1..Len(s) : IsDigit(s[i])

\* int(str): surrounding whitespace and one sign are accepted
StrIntOk(s) ==
  LET u == Strip(s)
  IN IF u # <<>> /\ Head(u) \in {"-", "+"} THEN AllDigits(Tail(u)) ELSE AllDigits(u)

StrIntVal(s) ==
  LET u == Strip(s)
  IN IF Head(u) = "-" THEN 0 - DigitsVal(Tail(u))
     ELSE IF Head(u) = "+" THEN DigitsVal(Tail(u))
     ELSE DigitsVal(u)

\* src/module/rag_module.py:242  _safe_int(x, default)
\* int(None) raises TypeError, int("abc") raises ValueError: both give default
_safe_int(x, default) ==
  CASE x.t = "none" -> default
    [] x.t = "str" -> IF StrIntOk(x.s) THEN StrIntVal(x.s) ELSE default
    [] OTHER -> x.n

\* Python slice xs[:k] (k may be negative)
SliceTo(xs, k) ==
  LET n == Len(xs)
      e == IF k >= 0 THEN (IF k < n THEN k ELSE n)
           ELSE (IF n + k > 0 THEN n + k ELSE 0)
  IN SubSeq(xs, 1, e)

\* src/module/rag_module.py:249  _truncate(text, max_chars)
\* ("..." stands for the one character U+2026)
_truncate(text, max_chars) ==
  IF text = <<>> THEN <<>>
  ELSE IF Len(text) <= max_chars THEN text
  ELSE SliceTo(text, max_chars - 1) \o <<"...">>

\* ------------------------------------------------------------------------
\* Documents
\* ------------------------------------------------------------------------
\* md.get(key): None when the key is missing
Get(md, key) == IF key \in DOMAIN md THEN md[key] ELSE None

\* md.get(key, default)
GetOr(md, key, default) == IF key \in DOMAIN md THEN md[key] ELSE default

\* md[key] = v
Put(md, key, v) == [x \in (DOMAIN md) \cup {key} |-> IF x = key THEN v ELSE md[x]]

Doc(content, md) == [page_content |-> content, metadata |-> md]

SetMeta(d, key, v) == [d EXCEPT !.metadata = Put(d.metadata, key, v)]

\* hash(page_content), taken as collision free: the hash of a string is the string
Hash(content) == content

RECURSIVE FirstTruthyField(_, _)
FirstTruthyField(md, fields) ==
  IF fields = <<>> THEN ""
  ELSE IF Truthy(Get(md, Head(fields))) THEN Head(fields)
  ELSE FirstTruthyField(md, Tail(fields))

\* the dedupe key of lines 265-273 (and of _key, lines 1014-1020):
\* f"{f}:{v}" for the first key field whose value is truthy, else the content hash
DocKey(d, key_fields) ==
  LET f == FirstTruthyField(d.metadata, key_fields)
  IN IF f # "" THEN <<f, ":">> \o Str(d.metadata[f])
     ELSE <<"content", ":">> \o Hash(d.page_content)

RECURSIVE DedupeFrom(_, _, _)
DedupeFrom(docs, key_fields, seen) ==
  IF docs = <<>> THEN <<>>
  ELSE LET d == Head(docs)
           key == DocKey(d, key_fields)
       IN IF key \in seen THEN DedupeFrom(Tail(docs), key_fields, seen)
          ELSE <<d>> \o DedupeFrom(Tail(docs), key_fields, seen \cup {key})

\* src/module/rag_module.py:257  _dedupe_docs(docs, key_fields)
_dedupe_docs(docs, key_fields) == DedupeFrom(docs, key_fields, {})

\* ------------------------------------------------------------------------
\* Sorting: Python's sorted() is stable
\* ------------------------------------------------------------------------
\* insert x behind every element that is not greater than x
InsertSorted(sorted, x, Lt(_, _)) ==
  LET k == Cardinality({j \in 1..Len(sorted) : ~Lt(x, sorted[j])})
  IN SubSeq(sorted, 1, k) \o <<x>> \o SubSeq(sorted, k + 1, Len(sorted))

StableSort(xs, Lt(_, _)) ==
  LET f[i \in 0..Len(xs)] == IF i = 0 THEN <<>> ELSE InsertSorted(f[i - 1], xs[i], Lt)
  IN f[Len(xs)]

\* sorted(range(n), key=...): the 1-based positions 1..n
Range(n) == [i \in 1..n |-> i]

RECURSIVE SumSeq(_)
SumSeq(xs) == IF xs = <<>> THEN 0 ELSE Head(xs) + SumSeq(Tail(xs))

\* min(a, b)
MinNat(a, b) == IF a < b THEN a ELSE b

MinOf(S) == CHOOSE x \in S : \A y \in S : x <= y

MaxOf(S) == CHOOSE x \in S : \A y \in S : x >= y

\* ------------------------------------------------------------------------
\* Tokenizer (SimpleTokenizer, lines 288-299)
\* ------------------------------------------------------------------------
Lower(c) ==
  CASE c = "A" -> "a"
    [] c = "B" -> "b"
    [] c = "C" -> "c"
    [] OTHER -> c

\* the characters the pattern [a-zA-Z0-9 and Hangul]+ matches, after lower()
IsWordChar(c) == c \in {"a", "b", "c"} \/ IsDigit(c)

RECURSIVE TokScan(_, _)
TokScan(text, cur) ==
  IF text = <<>> THEN (IF cur = <<>> THEN <<>> ELSE <<cur>>)
  ELSE LET c == Lower(Head(text))
       IN IF IsWordChar(c) THEN TokScan(Tail(text), Append(cur, c))
          ELSE (IF cur = <<>> THEN <<>> ELSE <<cur>>) \o TokScan(Tail(text), <<>>)

SimpleTokenizer_min_length == 1

\* SimpleTokenizer.tokenize(text): a token is a sequence of characters
tokenize(text) ==
  SelectSeq(TokScan(text, <<>>), LAMBDA t : Len(t) >= SimpleTokenizer_min_length)

\* ------------------------------------------------------------------------
\* BM25
\* ------------------------------------------------------------------------
\* one float unit is 1/Scale
Scale == 1000 * 1000

\* round(1000 * ln(i)) for i = 1..14: idf = ln((2N + 2) / (2 df + 1))
LnMilli == <<0, 693, 1099, 1386, 1609, 1792, 1946, 2079, 2197, 2303, 2398, 2485, 2565, 2639>>

CountIn(x, xs) == Cardinality({i \in 1..Len(xs) : xs[i] = x})

SeqToSet(xs) == {xs[i] : i \in 1..Len(xs)}

\* the keys of Counter(xs), in first-occurrence order
RECURSIVE Distinct(_)
Distinct(xs) ==
  IF xs = <<>> THEN <<>>
  ELSE LET init == Distinct(SubSeq(xs, 1, Len(xs) - 1))
           x == xs[Len(xs)]
       IN IF x \in SeqToSet(init) THEN init ELSE Append(init, x)

\* src/module/rag_module.py:323  _bm25_lite_scores(query_tokens, docs_tokens, k1, b)
\* k1c and bc are k1 and b in hundredths; the result is in units of 1/Scale,
\* computed to 1/1000.  docs_tokens[i] is whatever iterating the i-th entry
\* yields: the tokens of a token list, the characters of a str.
_bm25_lite_scores(query_tokens, docs_tokens, k1c, bc) ==
  LET N == Len(docs_tokens)
      doc_lens == [i \in 1..N |-> Len(docs_tokens[i])]
      total == SumSeq(doc_lens)
      df(term) == Cardinality({i \in 1..N : CountIn(term, docs_tokens[i]) > 0})
      idf(term) == LnMilli[2 * N + 2] - LnMilli[2 * df(term) + 1]
      \* norm = (1 - b) + b * dl / avgdl  as normNum / normDen
      normNum(i) == IF total = 0 THEN 100 - bc ELSE (100 - bc) * total + bc * doc_lens[i] * N
      normDen == IF total = 0 THEN 100 ELSE 100 * total
      termScore(i, term) ==
        LET f == CountIn(term, docs_tokens[i])
            qf == CountIn(term, query_tokens)
            \* denom = f + k1 * norm, as den / (100 * normDen)
            den == 100 * f * normDen + k1c * normNum(i)
            tf == (f * (k1c + 100) * normDen * 1000) \div den
        IN IF f <= 0 \/ den <= 0 THEN 0
           ELSE ((((idf(term) * tf) \div 1000) * (10 + (qf - 1))) \div 10) * (Scale \div 1000)
  IN IF N = 0 THEN <<>>
     ELSE IF query_tokens = <<>> THEN [i \in 1..N |-> 0]
     ELSE LET qterms == Distinct(query_tokens)
          IN [i \in 1..N |-> SumSeq([j \in 1..Len(qterms) |-> termScore(i, qterms[j])])]

\* src/module/rag_module.py:371  _compute_bm25_scores(query, docs, ...)
\* The build modelled has no rank_bm25 package (BM25_AVAILABLE is False), so
\* lines 391-401, which hand the tokens to that package, are not taken.
_compute_bm25_scores(query, docs, k1c, bc, max_doc_chars) ==
  IF docs = <<>> THEN <<>>
  ELSE _bm25_lite_scores(
         tokenize(query),
         [i \in 1..Len(docs) |-> tokenize(_truncate(docs[i].page_content, max_doc_chars))],
         k1c, bc)

RECURSIVE Join(_, _)
Join(parts, sep) ==
  IF parts = <<>> THEN <<>>
  ELSE IF Len(parts) = 1 THEN Head(parts)
  ELSE Head(parts) \o sep \o Join(Tail(parts), sep)

\* lines 394-398 with the rank_bm25 package present and algorithm "okapi":
\* BM25Okapi(docs_tokens, k1, b).get_scores(query_tokens) of that package.
\* idf = ln(N - n + 0.5) - ln(n + 0.5) per corpus term, a negative idf replaced
\* by epsilon (0.25) times the average idf; each query token (repeats
\* included) adds idf * f (k1 + 1) / (f + k1 norm).  The result is in units of
\* 1/Scale, computed to 1/1000.  Called only with a corpus that has a term.
BM25Okapi_get_scores(query_tokens, docs_tokens, k1c, bc) ==
  LET N == Len(docs_tokens)
      doc_lens == [i \in 1..N |-> Len(docs_tokens[i])]
      total == SumSeq(doc_lens)
      terms == Distinct(Join(docs_tokens, <<>>))
      nd(term) == Cardinality({i \in 1..N : CountIn(term, docs_tokens[i]) > 0})
      idf0(term) == LnMilli[2 * N - 2 * nd(term) + 1] - LnMilli[2 * nd(term) + 1]
      idf_sum == SumSeq([j \in 1..Len(terms) |-> idf0(terms[j])])
      \* Python's float division, rounded towards zero at 1/1000
      average_idf == IF idf_sum >= 0 THEN idf_sum \div Len(terms)
                     ELSE 0 - ((0 - idf_sum) \div Len(terms))
      eps == IF average_idf >= 0 THEN average_idf \div 4 ELSE 0 - ((0 - average_idf) \div 4)
      idf(term) == IF term \notin SeqToSet(terms) THEN 0
                   ELSE IF idf0(term) < 0 THEN eps ELSE idf0(term)
      normNum(i) == (100 - bc) * total + bc * doc_lens[i] * N
      normDen == 100 * total
      termScore(i, term) ==
        LET f == CountIn(term, docs_tokens[i])
            den == 100 * f * normDen + k1c * normNum(i)
            tf == (f * (k1c + 100) * normDen * 1000) \div den
            milli == IF idf(term) >= 0 THEN (idf(term) * tf) \div 1000
                     ELSE 0 - (((0 - idf(term)) * tf) \div 1000)
        IN IF f = 0 THEN 0 ELSE milli * (Scale \div 1000)
  IN [i \in 1..N |-> SumSeq([j \in 1..Len(query_tokens) |-> termScore(i, query_tokens[j])])]

\* src/module/rag_module.py:371  _compute_bm25_scores(query, docs, ...) in a
\* build that has the rank_bm25 package (BM25_AVAILABLE is True), algorithm
\* "okapi".  The constructor of BM25Okapi divides by the number of corpus
\* terms: with no term at all it raises ZeroDivisionError, which line 399
\* catches to fall back to the lite scorer.
_compute_bm25_scores_rank_bm25(query, docs, k1c, bc, max_doc_chars) ==
  IF docs = <<>> THEN <<>>
  ELSE LET query_tokens == tokenize(query)
           docs_tokens == [i \in 1..Len(docs) |->
                             tokenize(_truncate(docs[i].page_content, max_doc_chars))]
       IN IF \A i \in 1..Len(docs) : docs_tokens[i] = <<>>
          THEN _bm25_lite_scores(query_tokens, docs_tokens, k1c, bc)
          ELSE BM25Okapi_get_scores(query_tokens, docs_tokens, k1c, bc)

\* the defaults k1 = 1.5, b = 0.75 of _bm25_lite_scores (lines 327-328), in hundredths
LiteDefaultK1 == 150

LiteDefaultB == 75

\* src/module/rag_module.py:510  _compute_bm25_scores_from_texts(query, texts, ...)
\* Lite fallback (lines 538-540): each token list is joined into one str and the
\* strs are passed as docs_tokens, without k1 and b; iterating a str yields its
\* characters.
_compute_bm25_scores_from_texts(query, texts, k1c, bc, max_doc_chars) ==
  IF texts = <<>> THEN <<>>
  ELSE LET docs_tokens == [i \in 1..Len(texts) |-> tokenize(_truncate(texts[i], max_doc_chars))]
           doc_texts == [i \in 1..Len(texts) |-> Join(docs_tokens[i], <<" ">>)]
           as_chars == [i \in 1..Len(texts) |->
                          [j \in 1..Len(doc_texts[i]) |-> <<doc_texts[i][j]>>]]
       IN _bm25_lite_scores(tokenize(query), as_chars, LiteDefaultK1, LiteDefaultB)

\* src/module/rag_module.py:510  _compute_bm25_scores_from_texts(query, texts, ...)
\* in a build that has the rank_bm25 package, algorithm "okapi" (lines 530-536).
\* No try/except surrounds the package: the ZeroDivisionError its constructor
\* raises for a corpus without any term leaves the function.
_compute_bm25_scores_from_texts_rank_bm25(query, texts, k1c, bc, max_doc_chars) ==
  IF texts = <<>> THEN [raised |-> "", scores |-> <<>>]
  ELSE LET docs_tokens == [i \in 1..Len(texts) |-> tokenize(_truncate(texts[i], max_doc_chars))]
       IN IF \A i \in 1..Len(texts) : docs_tokens[i] = <<>>
          THEN [raised |-> "ZeroDivisionError", scores |-> <<>>]
          ELSE [raised |-> "",
                scores |-> BM25Okapi_get_scores(tokenize(query), docs_tokens, k1c, bc)]

\* ------------------------------------------------------------------------
\* Rank fusion.  Weights are in units of 1/10000, scores in units of 1/Scale.
\* ------------------------------------------------------------------------
Max1(r) == IF r > 1 THEN r ELSE 1

\* minmax([1 / max(1, r) for r in rr])[i] times the weight w
WeightedTerm(w, rr, i) ==
  LET rs == {Max1(rr[j]) : j \in 1..Len(rr)}
      rmin == MinOf(rs)
      rmax == MaxOf(rs)
      r == Max1(rr[i])
  IN IF rmin = rmax THEN w * 100
     ELSE ((w * ((rmax - r) * rmin)) \div ((rmax - rmin) * r)) * 100

\* src/module/rag_module.py:543  _rank_fusion_multi(ranks_list, mode, weights, rrf_k)
_rank_fusion_multi(ranks_list, mode, weights, rrf_k) ==
  LET n == Len(ranks_list[1])
      m == Len(ranks_list)
      k == Max1(rrf_k)
  IN IF n = 0 THEN <<>>
     ELSE IF mode = "rrf"
       THEN [i \in 1..n |-> SumSeq([ch \in 1..m |-> (weights[ch] * 100) \div (k + ranks_list[ch][i])])]
     ELSE IF mode = "rank_sum"
       THEN IF n = 1 THEN <<SumSeq(weights) * 100>>
            ELSE [i \in 1..n |->
                    SumSeq([ch \in 1..m |-> (weights[ch] * 100 * (n - ranks_list[ch][i])) \div (n - 1)])]
     ELSE [i \in 1..n |-> SumSeq([ch \in 1..m |-> WeightedTerm(weights[ch], ranks_list[ch], i)])]

\* src/module/rag_module.py:617  _rank_fusion(dense_ranks, sparse_ranks, ...)
_rank_fusion(dense_ranks, sparse_ranks, mode, w_dense, w_sparse, rrf_k) ==
  LET n == Len(dense_ranks)
      k == Max1(rrf_k)
  IN IF n = 0 THEN <<>>
     ELSE IF mode = "rrf"
       THEN [i \in 1..n |-> ((w_dense * 100) \div (k + dense_ranks[i]))
                            + ((w_sparse * 100) \div (k + sparse_ranks[i]))]
     ELSE IF mode = "rank_sum"
       THEN IF n = 1 THEN <<(w_dense + w_sparse) * 100>>
            ELSE [i \in 1..n |-> ((w_dense * 100 * (n - dense_ranks[i])) \div (n - 1))
                                 + ((w_sparse * 100 * (n - sparse_ranks[i])) \div (n - 1))]
     ELSE [i \in 1..n |-> WeightedTerm(w_dense, dense_ranks, i)
                          + WeightedTerm(w_sparse, sparse_ranks, i)]

\* ------------------------------------------------------------------------
\* RAGConfig (lines 666-760).  Units: bm25_k1, bm25_b and the temperatures in
\* hundredths, hybrid_sparse_title_ratio in hundredths, the hybrid weights in
\* 1/10000, rerank_threshold in 1/Scale.  An Optional[int] field is a value
\* (None or PyInt).
\* ------------------------------------------------------------------------
RAGConfig ==
  [ temperature |-> 10, normalize_temperature |-> 0,
    k_law |-> 7, k_rule |-> 7, k_case |-> 3, search_multiplier |-> 4,
    enable_bm25 |-> TRUE, sparse_mode |-> "auto",
    sparse_k_law |-> None, sparse_k_rule |-> None, sparse_k_case |-> None,
    bm25_algorithm |-> "okapi", bm25_k1 |-> 180, bm25_b |-> 85,
    bm25_max_doc_chars |-> 4000,
    enable_bm25_title |-> TRUE, bm25_title_field |-> "title",
    bm25_title_max_chars |-> 512, hybrid_sparse_title_ratio |-> 60,
    hybrid_fusion |-> "rrf", hybrid_dense_weight |-> 5000,
    hybrid_sparse_weight |-> 5000, rrf_k |-> 60,
    enable_rerank |-> TRUE, rerank_threshold |-> 200000,
    rerank_max_documents |-> 80, rerank_doc_max_chars |-> 2600,
    case_candidate_k |-> 40, case_expand_top_n |-> None, case_context_top_k |-> 50,
    dedupe_key_fields |-> <<"chunk_id", "id">> ]

\* src/module/rag_module.py:729  RAGConfig.__post_init__: TRUE when no ValueError is raised
RAGConfig_post_init(c) ==
  /\ (0 <= c.temperature /\ c.temperature <= 200)
  /\ (0 <= c.normalize_temperature /\ c.normalize_temperature <= 200)
  /\ ~(c.search_multiplier < 1)
  /\ ~(c.case_candidate_k < 1 \/ c.case_context_top_k < 1)
  /\ (c.enable_bm25 =>
        /\ ~(c.bm25_k1 <= 0)
        /\ (0 <= c.bm25_b /\ c.bm25_b <= 100)
        /\ c.bm25_algorithm \in {"okapi", "plus"}
        /\ (c.enable_bm25_title =>
              /\ (0 <= c.hybrid_sparse_title_ratio /\ c.hybrid_sparse_title_ratio <= 100)
              /\ ~(c.bm25_title_max_chars < 32)))
  /\ c.hybrid_fusion \in {"rrf", "rank_sum", "weighted"}
  /\ ~(c.rrf_k < 1)
  /\ ~(c.hybrid_dense_weight < 0 \/ c.hybrid_sparse_weight < 0)
  /\ ~(c.hybrid_dense_weight = 0 /\ c.hybrid_sparse_weight = 0)

\* ------------------------------------------------------------------------
\* Per-source fusion
\* ------------------------------------------------------------------------
\* src/module/rag_module.py:938  _attach_source(docs, source)
_attach_source(docs, source) ==
  [i \in 1..Len(docs) |-> SetMeta(docs[i], "__source_index", PyStr(<<source>>))]

\* ranks from scores with equal scores ordered by the higher dense rank
ChannelRanks_TiesByHigherDenseRank(scores, dense_ranks) ==
  LET n == Len(scores)
      Lt(i, j) == \/ scores[i] > scores[j]
                  \/ (scores[i] = scores[j] /\ dense_ranks[i] > dense_ranks[j])
      order == StableSort(Range(n), Lt)
  IN [idx \in 1..n |-> CHOOSE r \in 1..n : order[r] = idx]

\* ranks from scores: sorted(range(n), key=lambda i: (-scores[i], dense_ranks[i])),
\* then ranks[idx] = r (lines 1116-1119 and 1135-1138)
ChannelRanks(scores, dense_ranks) ==
  LET n == Len(scores)
      Lt(i, j) == \/ scores[i] > scores[j]
                  \/ (scores[i] = scores[j] /\ dense_ranks[i] < dense_ranks[j])
      order == StableSort(Range(n), Lt)
  IN [idx \in 1..n |-> CHOOSE r \in 1..n : order[r] = idx]

\* the fused order taken ascending (reverse=True left out)
FusedOrder_Ascending(fused) ==
  StableSort(Range(Len(fused)), LAMBDA i, j : fused[i] < fused[j])

\* sorted(range(n), key=lambda i: fused[i], reverse=True)
FusedOrder(fused) ==
  StableSort(Range(Len(fused)), LAMBDA i, j : fused[i] > fused[j])

\* src/module/rag_module.py:1087  _dense_sparse_fuse(query, docs)
_dense_sparse_fuse(c, query, docs0) ==
  IF ~c.enable_bm25 THEN docs0
  ELSE
  LET docs == _dedupe_docs(docs0, c.dedupe_key_fields)
      n == Len(docs)
      dense_ranks == [i \in 1..n |-> GetOr(docs[i].metadata, "__dense_rank", PyInt(i)).n]
      bm25_text_scores ==
        _compute_bm25_scores(query, docs, c.bm25_k1, c.bm25_b, c.bm25_max_doc_chars)
      bm25_text_ranks == ChannelRanks(bm25_text_scores, dense_ranks)
      titles == [i \in 1..n |->
                   LET v == Get(docs[i].metadata, c.bm25_title_field)
                   IN IF Truthy(v) THEN Str(v) ELSE <<>>]
      bm25_title_scores ==
        IF c.enable_bm25_title
        THEN _compute_bm25_scores_from_texts(query, titles, c.bm25_k1, c.bm25_b,
                                             c.bm25_title_max_chars)
        ELSE [i \in 1..n |-> 0]
      bm25_title_ranks ==
        IF c.enable_bm25_title THEN ChannelRanks(bm25_title_scores, dense_ranks)
        ELSE [i \in 1..n |-> n + 1000]
      w_dense == c.hybrid_dense_weight
      w_title == IF c.enable_bm25_title
                 THEN (c.hybrid_sparse_weight * c.hybrid_sparse_title_ratio) \div 100
                 ELSE 0
      w_text == c.hybrid_sparse_weight - w_title
      fused == _rank_fusion_multi(<<dense_ranks, bm25_text_ranks, bm25_title_ranks>>,
                                  c.hybrid_fusion, <<w_dense, w_text, w_title>>, c.rrf_k)
      order == FusedOrder(fused)
      annotate(i, rank) ==
        [docs[i] EXCEPT !.metadata =
           Put(Put(Put(Put(Put(Put(Put(Put(@,
             "__bm25_text_score", PyFloat(bm25_text_scores[i])),
             "__bm25_text_rank", PyInt(bm25_text_ranks[i])),
             "__bm25_score", PyFloat(bm25_text_scores[i])),
             "__bm25_rank", PyInt(bm25_text_ranks[i])),
             "__bm25_title_score", PyFloat(bm25_title_scores[i])),
             "__bm25_title_rank", PyInt(bm25_title_ranks[i])),
             "__hybrid_score", PyFloat(fused[i])),
             "__hybrid_rank", PyInt(rank))]
  IN IF n <= 1 THEN docs
     ELSE [rank \in 1..n |-> annotate(order[rank], rank)]

\* ------------------------------------------------------------------------
\* BM25InvertedIndex (lines 408-506).  An index is the record of what build
\* stored: _docs, the tokens of each document (from which _postings holds the
\* term frequencies and _idf the document frequencies), _doc_lens, k1 and b
\* (in hundredths) and _built.
\* ------------------------------------------------------------------------
\* src/module/rag_module.py:439  BM25InvertedIndex.build(docs), for the index
\* build_global_bm25 creates from the configuration c (lines 961-967)
BM25InvertedIndex_build(c, docs) ==
  LET deduped == _dedupe_docs(docs, c.dedupe_key_fields)
      toks == [i \in 1..Len(deduped) |->
                 tokenize(_truncate(deduped[i].page_content, c.bm25_max_doc_chars))]
  IN [_docs |-> deduped, _postings |-> toks,
      _doc_lens |-> [i \in 1..Len(deduped) |-> Len(toks[i])],
      k1 |-> c.bm25_k1, b |-> c.bm25_b, _built |-> TRUE]

\* src/module/rag_module.py:470  BM25InvertedIndex.is_built()
is_built(index) == index._built /\ index._docs # <<>>

\* the score without the query-frequency factor 1 + 0.1 (qf - 1) of line 500
IndexScore_NoQueryFrequency(index, q_tokens, i) ==
  LET N == Len(index._docs)
      total == SumSeq(index._doc_lens)
      qterms == Distinct(q_tokens)
      df(term) == Cardinality({d \in 1..N : CountIn(term, index._postings[d]) > 0})
      idf(term) == LnMilli[2 * N + 2] - LnMilli[2 * df(term) + 1]
      normNum == IF total = 0 THEN (100 - index.b) + index.b * index._doc_lens[i]
                 ELSE (100 - index.b) * total + index.b * index._doc_lens[i] * N
      normDen == IF total = 0 THEN 100 ELSE 100 * total
      termScore(term) ==
        LET f == CountIn(term, index._postings[i])
            den == 100 * f * normDen + index.k1 * normNum
            tf == (f * (index.k1 + 100) * normDen * 1000) \div den
        IN IF f <= 0 \/ idf(term) = 0 \/ den <= 0 THEN 0
           ELSE ((idf(term) * tf) \div 1000) * (Scale \div 1000)
  IN SumSeq([j \in 1..Len(qterms) |-> termScore(qterms[j])])

\* lines 480-500: the score of document i for the query tokens, in units of
\* 1/Scale computed to 1/1000; idf = ln(1 + (N - df + 0.5) / (df + 0.5))
IndexScore(index, q_tokens, i) ==
  LET N == Len(index._docs)
      total == SumSeq(index._doc_lens)
      qterms == Distinct(q_tokens)
      df(term) == Cardinality({d \in 1..N : CountIn(term, index._postings[d]) > 0})
      idf(term) == LnMilli[2 * N + 2] - LnMilli[2 * df(term) + 1]
      \* avgdl = _avgdl or 1.0;  norm = (1 - b) + b * dl / avgdl  as normNum / normDen
      normNum == IF total = 0 THEN (100 - index.b) + index.b * index._doc_lens[i]
                 ELSE (100 - index.b) * total + index.b * index._doc_lens[i] * N
      normDen == IF total = 0 THEN 100 ELSE 100 * total
      termScore(term) ==
        LET f == CountIn(term, index._postings[i])
            qf == CountIn(term, q_tokens)
            den == 100 * f * normDen + index.k1 * normNum
            tf == (f * (index.k1 + 100) * normDen * 1000) \div den
        IN IF f <= 0 \/ idf(term) = 0 \/ den <= 0 THEN 0
           ELSE ((((idf(term) * tf) \div 1000) * (10 + (qf - 1))) \div 10) * (Scale \div 1000)
  IN SumSeq([j \in 1..Len(qterms) |-> termScore(qterms[j])])

\* src/module/rag_module.py:473  BM25InvertedIndex.search(query, top_k): the
\* pairs [i, s] of a position in _docs and its score.  The keys of `scores`
\* are in insertion order (query terms in first-occurrence order, then the
\* postings of a term in document order); heapq.nlargest returns the top_k
\* largest, equal scores in that order, and nothing for top_k <= 0.
BM25InvertedIndex_search(index, query, top_k) ==
  LET q_tokens == tokenize(query)
      qterms == Distinct(q_tokens)
      N == Len(index._docs)
      firstTerm(i) == CHOOSE j \in 1..Len(qterms) :
                        /\ CountIn(qterms[j], index._postings[i]) > 0
                        /\ \A h \in 1..(j - 1) : CountIn(qterms[h], index._postings[i]) = 0
      hits == SelectSeq(Range(N), LAMBDA i :
                \E j \in 1..Len(qterms) :
                  /\ CountIn(qterms[j], index._postings[i]) > 0
                  /\ LnMilli[2 * N + 2] # LnMilli[2 * Cardinality(
                       {d \in 1..N : CountIn(qterms[j], index._postings[d]) > 0}) + 1])
      inserted == StableSort(hits, LAMBDA x, y : firstTerm(x) < firstTerm(y))
      top == StableSort(inserted, LAMBDA x, y :
               IndexScore(index, q_tokens, x) > IndexScore(index, q_tokens, y))
  IN IF ~is_built(index) \/ q_tokens = <<>> \/ top_k <= 0 THEN <<>>
     ELSE [r \in 1..MinNat(top_k, Len(top)) |->
             [i |-> top[r], s |-> IndexScore(index, q_tokens, top[r])]]

\* src/module/rag_module.py:958  build_global_bm25._build(name, docs): the
\* indices after the call; docs is None (here <<>>) or a corpus
_build(c, global_bm25, name, docs) ==
  IF docs = <<>> THEN global_bm25
  ELSE LET idx == BM25InvertedIndex_build(c, docs)
       IN IF is_built(idx)
          THEN [s \in (DOMAIN global_bm25) \cup {name} |->
                  IF s = name THEN idx ELSE global_bm25[s]]
          ELSE global_bm25

\* ------------------------------------------------------------------------
\* _hybrid_fuse_per_source (lines 977-1065)
\* ------------------------------------------------------------------------
\* auto mode taking the global path as soon as any source has an index
UseGlobal_AnyIndex(c, global_bm25, source) ==
  \/ c.sparse_mode = "global"
  \/ (c.sparse_mode = "auto" /\ DOMAIN global_bm25 # {})

\* lines 980-986
UseGlobal(c, global_bm25, source) ==
  \/ c.sparse_mode = "global"
  \/ (c.sparse_mode = "auto" /\ source \in DOMAIN global_bm25 /\ is_built(global_bm25[source]))

\* lines 991-996: sk, with Python's  a or b  on an Optional[int]
SparseK(c, source) ==
  LET m == Max1(c.search_multiplier)
  IN CASE source = "law" -> IF Truthy(c.sparse_k_law) THEN c.sparse_k_law.n ELSE c.k_law * m
       [] source = "rule" -> IF Truthy(c.sparse_k_rule) THEN c.sparse_k_rule.n ELSE c.k_rule * m
       [] OTHER -> IF Truthy(c.sparse_k_case) THEN c.sparse_k_case.n
                   ELSE (IF c.case_candidate_k > c.k_case * m THEN c.case_candidate_k
                         ELSE c.k_case * m)

\* lines 1047-1065: the merged documents `all` at the positions `kept`, fused
\* and ordered.  `hits` are the positions in the index of the sparse hits by
\* rank, docs1 the documents of the index after lines 1000-1005, nd the number
\* of dense documents.  The result is the returned list `out` and the
\* documents `_docs` the index holds afterwards (nothing is raised here).
GlobalOrder(all, kept, docs1, hits, nd, fused) ==
  LET n == Len(kept)
      order == FusedOrder(fused)
      rankOf(m) == CHOOSE rank \in 1..n : order[rank] = m
      hybrid(d, m) == SetMeta(SetMeta(d, "__hybrid_score", PyFloat(fused[m])),
                              "__hybrid_rank", PyInt(rankOf(m)))
      \* the rank of the index document p among the hits, 0 when it is none
      hitRank(p) == IF \E r \in 1..Len(hits) : hits[r] = p
                    THEN CHOOSE r \in 1..Len(hits) : hits[r] = p ELSE 0
      \* the merged position of the index document p, 0 when it is not merged
      mergedAs(p) == IF hitRank(p) # 0 /\ \E m \in 1..n : kept[m] = nd + hitRank(p)
                     THEN CHOOSE m \in 1..n : kept[m] = nd + hitRank(p)
                     ELSE 0
  IN IF n <= 1
     THEN [raises |-> FALSE, path |-> "global",
           out |-> [m \in 1..n |-> all[kept[m]]], _docs |-> docs1]
     ELSE [raises |-> FALSE, path |-> "global",
           out |-> [rank \in 1..n |-> hybrid(all[kept[order[rank]]], order[rank])],
           _docs |-> [p \in 1..Len(docs1) |->
                        IF mergedAs(p) # 0 THEN hybrid(docs1[p], mergedAs(p)) ELSE docs1[p]]]

\* lines 1022-1054: the dense and sparse rank of each merged document (the
\* smallest rank of its dedupe key, max + 1000 when the key has none) and
\* their fusion.  keys[q] is the dedupe key of all[q].
GlobalRanks(c, all, keys, kept, docs1, hits, nd) ==
  LET ns == Len(hits)
      n == Len(kept)
      denseOf(k) == {GetOr(all[q].metadata, "__dense_rank", PyInt(q)).n :
                       q \in {h \in 1..nd : keys[h] = k}}
      sparseOf(k) == {GetOr(all[nd + r].metadata, "__bm25_rank", PyInt(r)).n :
                        r \in {h \in 1..ns : keys[nd + h] = k}}
      max_dense == IF nd = 0 THEN 1000 ELSE MaxOf(UNION {denseOf(keys[q]) : q \in 1..nd})
      max_sparse == IF ns = 0 THEN 1000 ELSE MaxOf(UNION {sparseOf(keys[nd + r]) : r \in 1..ns})
      dense_ranks == [m \in 1..n |->
                        IF denseOf(keys[kept[m]]) = {} THEN max_dense + 1000
                        ELSE MinOf(denseOf(keys[kept[m]]))]
      sparse_ranks == [m \in 1..n |->
                         IF sparseOf(keys[kept[m]]) = {} THEN max_sparse + 1000
                         ELSE MinOf(sparseOf(keys[kept[m]]))]
  IN GlobalOrder(all, kept, docs1, hits, nd,
                 _rank_fusion(dense_ranks, sparse_ranks, c.hybrid_fusion,
                              c.hybrid_dense_weight, c.hybrid_sparse_weight, c.rrf_k))

\* line 1010: merged = _dedupe_docs(dense_docs + sparse_docs), as the positions
\* of `all` that _dedupe_docs keeps
GlobalMerge(c, all, docs1, hits, nd) ==
  LET keys == [q \in 1..Len(all) |-> DocKey(all[q], c.dedupe_key_fields)]
  IN GlobalRanks(c, all, keys,
                 SelectSeq(Range(Len(all)), LAMBDA q : \A h \in 1..(q - 1) : keys[h] # keys[q]),
                 docs1, hits, nd)

\* lines 1000-1008: the sparse hits get __bm25_score, __bm25_rank and
\* __source_index.  The documents search returns are the objects the index
\* holds, so what is written into their metadata is written into the index:
\* the result is the documents of the index afterwards.
AnnotateHits(source, index_docs, sparse_pairs) ==
  [p \in 1..Len(index_docs) |->
     IF \E r \in 1..Len(sparse_pairs) : sparse_pairs[r].i = p
     THEN LET r == CHOOSE r \in 1..Len(sparse_pairs) : sparse_pairs[r].i = p
          IN SetMeta(SetMeta(SetMeta(index_docs[p],
               "__bm25_score", PyFloat(sparse_pairs[r].s)),
               "__bm25_rank", PyInt(r)),
               "__source_index", PyStr(<<source>>))
     ELSE index_docs[p]]

\* lines 1010-1065 with sparse_docs the documents of the index (now docs1) at
\* the positions `hits`
GlobalAfterSearch(c, dense_docs1, docs1, hits) ==
  GlobalMerge(c, dense_docs1 \o [r \in 1..Len(hits) |-> docs1[hits[r]]], docs1, hits,
              Len(dense_docs1))

\* lines 1000-1065
GlobalSparse(c, source, dense_docs1, index, sparse_pairs) ==
  GlobalAfterSearch(c, dense_docs1, AnnotateHits(source, index._docs, sparse_pairs),
                    [r \in 1..Len(sparse_pairs) |-> sparse_pairs[r].i])

\* lines 998-1065: the global branch
GlobalFuse(c, source, query, dense_docs0, index) ==
  GlobalSparse(c, source, _attach_source(dense_docs0, source), index,
               BM25InvertedIndex_search(index, query, SparseK(c, source)))

\* src/module/rag_module.py:977  _hybrid_fuse_per_source(source, query, dense_docs):
\* raises (the KeyError of line 998), or the returned list and the documents
\* of the index of the source afterwards; path is the branch taken at line
\* 988 ("candidate": line 989, "global": lines 991-1065)
_hybrid_fuse_per_source(c, global_bm25, source, query, dense_docs0) ==
  IF ~UseGlobal(c, global_bm25, source)
  THEN [raises |-> FALSE, path |-> "candidate",
        out |-> _dense_sparse_fuse(c, query, dense_docs0), _docs |-> <<>>]
  ELSE IF source \notin DOMAIN global_bm25
  THEN [raises |-> TRUE, path |-> "global", out |-> <<>>, _docs |-> <<>>]
  ELSE GlobalFuse(c, source, query, dense_docs0, global_bm25[source])

\* ------------------------------------------------------------------------
\* Reranking and the per-source split (triple_hybrid_retrieval, lines 1204-1290)
\* ------------------------------------------------------------------------
\* src/module/rag_module.py:1191  _cap_for_rerank(law, rule, case)
_cap_for_rerank(c, law0, rule0, case0) ==
  LET law == _dedupe_docs(law0, c.dedupe_key_fields)
      rule == _dedupe_docs(rule0, c.dedupe_key_fields)
      case == _dedupe_docs(case0, c.dedupe_key_fields)
      base == law \o rule
  IN IF Len(base) >= c.rerank_max_documents THEN SliceTo(base, c.rerank_max_documents)
     ELSE base \o SliceTo(case, c.rerank_max_documents - Len(base))

\* what _rerank returned: None, or a list of pairs [i, s]; i is the 1-based
\* position in combined_for_rerank (the code's index plus one), s the score
RankedNone == [none |-> TRUE, pairs |-> <<>>]

RankedList(pairs) == [none |-> FALSE, pairs |-> pairs]

\* the threshold test written with > and the fallback cut one pair short
FilterRanked_Strict(c, ranked) ==
  LET above == SelectSeq(ranked.pairs, LAMBDA p : p.s > c.rerank_threshold)
      desired == MinNat(c.k_law + c.k_rule + c.k_case, Len(ranked.pairs))
  IN IF above = <<>> THEN SliceTo(ranked.pairs, desired - 1) ELSE above

\* lines 1236-1239: the pairs on or above the threshold, or the first `desired`
FilterRanked(c, ranked) ==
  LET above == SelectSeq(ranked.pairs, LAMBDA p : p.s >= c.rerank_threshold)
      desired == MinNat(c.k_law + c.k_rule + c.k_case, Len(ranked.pairs))
  IN IF above = <<>> THEN SliceTo(ranked.pairs, desired) ELSE above

\* a failed rerank that selects nothing
SelectRanked_DropOnNone(c, combined_for_rerank, ranked) ==
  IF ~ranked.none /\ ranked.pairs # <<>>
  THEN LET filtered == FilterRanked(c, ranked)
       IN [j \in 1..Len(filtered) |-> combined_for_rerank[filtered[j].i]]
  ELSE <<>>

\* lines 1235-1243: `if ranked:` is false for None and for an empty list
SelectRanked(c, combined_for_rerank, ranked) ==
  IF ~ranked.none /\ ranked.pairs # <<>>
  THEN LET filtered == FilterRanked(c, ranked)
       IN [j \in 1..Len(filtered) |-> combined_for_rerank[filtered[j].i]]
  ELSE combined_for_rerank

\* lines 1247-1249
FromSource(docs, source) ==
  SelectSeq(docs, LAMBDA d : Get(d.metadata, "__source_index") = PyStr(<<source>>))

\* lines 1254-1264: the first chunk of each case number, until top_n are chosen
RECURSIVE ChooseCases(_, _, _, _)
ChooseCases(chunks, seen_case_no, chosen, top_n) ==
  IF chunks = <<>> THEN chosen
  ELSE LET d == Head(chunks)
           case_no == Get(d.metadata, "case_no")
       IN IF ~Truthy(case_no) \/ Str(case_no) \in seen_case_no
          THEN ChooseCases(Tail(chunks), seen_case_no, chosen, top_n)
          ELSE IF Len(chosen) + 1 >= top_n THEN Append(chosen, d)
          ELSE ChooseCases(Tail(chunks), seen_case_no \cup {Str(case_no)},
                           Append(chosen, d), top_n)

\* code points, in increasing order, of the characters identifiers are made of
CodePoints == <<"\t", "\n", " ", "+", "-", "0", "1", "2", "3", "4", "5", "6", "7", "8", "9",
                ":", "A", "B", "C", "F", "N", "T", "a", "b", "c", "e", "k", "l", "n", "o",
                "r", "s", "u", "x", "y">>

Ord(ch) == CHOOSE i \in 1..Len(CodePoints) : CodePoints[i] = ch

\* Python's str < str
RECURSIVE StrLess(_, _)
StrLess(a, b) ==
  IF b = <<>> THEN FALSE
  ELSE IF a = <<>> THEN TRUE
  ELSE IF Head(a) = Head(b) THEN StrLess(Tail(a), Tail(b))
  ELSE Ord(Head(a)) < Ord(Head(b))

\* src/module/rag_module.py:919  get_full_case_context(case_no), given what the
\* filtered search of the case index did: resp.raises, or resp.results
get_full_case_context(c, resp) ==
  IF resp.raises THEN <<>>
  ELSE LET key(d) == Str(GetOr(d.metadata, "chunk_id", PyStr(<<>>)))
           sorted_docs == StableSort(resp.results, LAMBDA x, y : StrLess(key(x), key(y)))
           unique_docs == _dedupe_docs(sorted_docs, c.dedupe_key_fields)
       IN Strip(Join([i \in 1..Len(unique_docs) |-> unique_docs[i].page_content], <<"\n">>))

\* "[CASE FULL TEXT: " stands for the literal that opens the expanded content
\* (line 1281), a Korean phrase
ExpandedPrefix == "[CASE FULL TEXT: "

\* Python's  a or b
Or(a, b) == IF Truthy(a) THEN a ELSE b

\* lines 1266-1284 for one chosen chunk d and the response to its filtered search
ExpandCase(c, d, resp) ==
  LET case_no == Get(d.metadata, "case_no")
      full_text == get_full_case_context(c, resp)
      title == Or(Get(d.metadata, "title"), Or(Get(d.metadata, "case_name"), PyStr(Str(case_no))))
  IN IF full_text = <<>> THEN d
     ELSE Doc(<<ExpandedPrefix>> \o Str(title) \o <<"]", "\n">> \o full_text,
              Put(d.metadata, "__expanded", PyTrue))

\* the case-expansion step filling the case slot up with the chunks it did not
\* choose
ExpansionStep_KeepsUnchosen(c, case_ranked_chunks, resps) ==
  LET top_n == IF c.case_expand_top_n # None THEN c.case_expand_top_n.n ELSE c.k_case
      chosen_case_docs == ChooseCases(case_ranked_chunks, {}, <<>>, top_n)
      expanded_cases == [i \in 1..Len(chosen_case_docs) |->
                           ExpandCase(c, chosen_case_docs[i], resps[i])]
      unchosen == SelectSeq(case_ranked_chunks,
                            LAMBDA d : \A i \in 1..Len(chosen_case_docs) : chosen_case_docs[i] # d)
  IN SliceTo(expanded_cases \o unchosen, c.k_case)

\* lines 1254-1286: the case-expansion step on the case chunks of the selected
\* list; resps[i] is the response to the filtered search for the i-th chosen chunk
ExpansionStep(c, case_ranked_chunks, resps) ==
  LET top_n == IF c.case_expand_top_n # None THEN c.case_expand_top_n.n ELSE c.k_case
      chosen_case_docs == ChooseCases(case_ranked_chunks, {}, <<>>, top_n)
      expanded_cases == [i \in 1..Len(chosen_case_docs) |->
                           ExpandCase(c, chosen_case_docs[i], resps[i])]
  IN SliceTo(expanded_cases, c.k_case)

\* a sort key that takes 0 for a missing or uncoercible priority
PriorityKey_DefaultZero(d) == _safe_int(GetOr(d.metadata, "priority", PyInt(0)), 0)

\* line 1289: the sort key
PriorityKey(d) == _safe_int(GetOr(d.metadata, "priority", PyInt(99)), 99)

\* the final sort done by a sort that is not stable (equal keys change places)
SortByPriority_Unstable(docs) == StableSort(docs, LAMBDA x, y : PriorityKey(x) <= PriorityKey(y))

\* line 1289: sorted(final_docs, key=...)
SortByPriority(docs) == StableSort(docs, LAMBDA x, y : PriorityKey(x) < PriorityKey(y))

\* lines 1251-1252, 1286
final_law_of(c, selected_docs) == SliceTo(FromSource(selected_docs, "law"), c.k_law)

final_rule_of(c, selected_docs) == SliceTo(FromSource(selected_docs, "rule"), c.k_rule)

chosen_case_docs_of(c, selected_docs) ==
  LET top_n == IF c.case_expand_top_n # None THEN c.case_expand_top_n.n ELSE c.k_case
  IN ChooseCases(FromSource(selected_docs, "case"), {}, <<>>, top_n)

\* ------------------------------------------------------------------------
\* References (lines 1378-1407)
\* ------------------------------------------------------------------------
\* "MATERIAL" stands for the Korean fallback label of lines 1395 and 1407
FallbackLabel == <<"MATERIAL">>

StrOrEmpty(v) == IF Truthy(v) THEN Str(v) ELSE <<>>

\* src/module/rag_module.py:1383  format_reference_short(doc)
format_reference_short(doc) ==
  LET md == doc.metadata
      t0 == Strip(StrOrEmpty(Get(md, "src_title")))
      alt == Or(Get(md, "source"), Or(Get(md, "src"), Or(Get(md, "file"),
               Or(Get(md, "title"), Or(Get(md, "__source_index"), PyStr(FallbackLabel))))))
      src_title == IF t0 = <<>> THEN Strip(Str(alt)) ELSE t0
      a0 == Strip(StrOrEmpty(Get(md, "article")))
      case_no == Strip(StrOrEmpty(Get(md, "case_no")))
      article == IF a0 = <<>> /\ case_no # <<>> THEN case_no ELSE a0
      parts == SelectSeq(<<src_title, article>>, LAMBDA x : x # <<>>)
      joined == Strip(Join(parts, <<" ">>))
  IN IF joined = <<>> THEN FallbackLabel ELSE joined

\* src/module/rag_module.py:1378  format_references(docs)
format_references(docs) == [i \in 1..Len(docs) |-> format_reference_short(docs[i])]

\* ------------------------------------------------------------------------
\* Context formatting (lines 1294-1423)
\* ------------------------------------------------------------------------
\* str.replace("\n", " ")
ReplaceNewlines(text) == [i \in 1..Len(text) |-> IF text[i] = "\n" THEN " " ELSE text[i]]

\* src/module/rag_module.py:1294  format_reference_line(doc, text_max_chars)
format_reference_line(doc, text_max_chars) ==
  LET md == doc.metadata
      t0 == Strip(StrOrEmpty(Get(md, "src_title")))
      alt == Or(Get(md, "source"), Or(Get(md, "src"), Or(Get(md, "file"),
               Or(Get(md, "title"), Or(Get(md, "__source_index"), PyStr(FallbackLabel))))))
      src_title == IF t0 = <<>> THEN Strip(Str(alt)) ELSE t0
      a0 == Strip(StrOrEmpty(Get(md, "article")))
      case_no == Strip(StrOrEmpty(Get(md, "case_no")))
      article == IF a0 = <<>> /\ case_no # <<>> THEN case_no ELSE a0
      text == Strip(_truncate(ReplaceNewlines(Strip(doc.page_content)), text_max_chars))
      left == Strip(Join(SelectSeq(<<src_title, article>>, LAMBDA x : x # <<>>), <<" ">>))
  IN IF left # <<>> THEN Strip(left \o <<" ", "-", " ">> \o text)
     ELSE Strip(<<"-", " ">> \o text)

\* the literal headers of lines 1356, 1361, 1366 and 1423, each one text atom
SectionHeader(n) ==
  CASE n = 0 -> "## [SECTION 0: user contract OCR]"
    [] n = 1 -> "## [SECTION 1: core statutes]"
    [] n = 2 -> "## [SECTION 2: rules and procedures]"
    [] OTHER -> "## [SECTION 3: cases]"

\* lines 1347-1352 with priority 3 taken for a core statute
SectionOf_ThreeIsLaw(p) ==
  IF p \in {1, 2, 3, 4, 5} THEN 1 ELSE IF p \in {6, 7, 8, 11} THEN 2 ELSE 3

\* lines 1347-1352: the section of a coerced priority
SectionOf(p) ==
  IF p \in {1, 2, 4, 5} THEN 1 ELSE IF p \in {3, 6, 7, 8, 11} THEN 2 ELSE 3

\* src/module/rag_module.py:1328  format_context_with_hierarchy(docs)
format_context_with_hierarchy(c, docs) ==
  LET p(doc) == _safe_int(GetOr(doc.metadata, "priority", PyInt(99)), 99)
      entry(doc) == format_reference_line(doc, c.rerank_doc_max_chars)
      section(n) == LET of == SelectSeq(docs, LAMBDA doc : SectionOf(p(doc)) = n)
                    IN [i \in 1..Len(of) |-> <<"-", " ">> \o entry(of[i])]
      block(n) == <<SectionHeader(n), "\n">> \o Join(section(n), <<"\n">>)
      parts == SelectSeq(<<1, 2, 3>>, LAMBDA n : section(n) # <<>>)
  IN Strip(Join([i \in 1..Len(parts) |-> block(parts[i])], <<"\n", "\n">>))

\* src/module/rag_module.py:1374  format_context(docs)
format_context(c, docs) == format_context_with_hierarchy(c, docs)

\* the default max_chars of _format_user_contract_context (line 1411)
ContractMaxChars == 12000

\* _format_user_contract_context without the second emptiness test (lines 1419-1420)
_format_user_contract_context_NoSecondTest(contract_text, max_chars) ==
  IF ~Truthy(contract_text) THEN <<>>
  ELSE LET t == Strip(Str(contract_text))
           cut == IF Len(t) > max_chars THEN SliceTo(t, max_chars - 1) \o <<"...">> ELSE t
       IN <<SectionHeader(0), "\n">> \o Strip(cut)

\* src/module/rag_module.py:1411  _format_user_contract_context(contract_text, max_chars)
\* ("..." stands for the one character U+2026)
_format_user_contract_context(contract_text, max_chars) ==
  IF ~Truthy(contract_text) THEN <<>>
  ELSE LET t == Strip(Str(contract_text))
           cut == IF Len(t) > max_chars THEN SliceTo(t, max_chars - 1) \o <<"...">> ELSE t
       IN IF t = <<>> THEN <<>>
          ELSE <<SectionHeader(0), "\n">> \o Strip(cut)

\* lines 1456-1461 of answer_with_trace: the context handed to the generator
\* (use_contract_mode picks the system prompt, line 1466, not the context)
ContextOf(c, docs, extra_context, use_contract_mode) ==
  LET context_main == format_context(c, docs)
      context_contract == _format_user_contract_context(extra_context, ContractMaxChars)
  IN IF context_contract # <<>>
     THEN Strip(context_contract \o <<"\n", "\n">> \o context_main)
     ELSE context_main

\* ------------------------------------------------------------------------
\* The upstream services: what the indices hold and what the calls may return
\* ------------------------------------------------------------------------
S1(a) == PyStr(<<a>>)

S2(a, b) == PyStr(<<a, b>>)

LawCorpus ==
  << Doc(<<"a", " ", "b">>,
         [chunk_id |-> S2("c", "1"), priority |-> PyInt(1), title |-> S1("a"),
          src_title |-> S1("LawA"), article |-> S1("1")]),
     Doc(<<"b">>,
         [chunk_id |-> PyInt(0), id |-> S1("x"), priority |-> S1("1"), title |-> S1("b")]) >>

RuleCorpus ==
  << Doc(<<"a">>, [priority |-> PyInt(3), title |-> S1("b")]),
     Doc(<<"a", " ", "b">>, [chunk_id |-> S2("c", "1"), priority |-> S2("a", "b")]) >>

CaseCorpus ==
  << Doc(<<"b">>, [chunk_id |-> PyInt(10), case_no |-> S1("A")]),
     Doc(<<"a">>, [chunk_id |-> PyInt(9), case_no |-> S1("A"), title |-> S1("a")]),
     Doc(<<"b", " ", "a">>,
         [chunk_id |-> PyInt(0), id |-> S1("y"), case_no |-> S1("B"), priority |-> S1("1")]),
     Doc(<<"a">>, [chunk_id |-> PyInt(8)]) >>

Corpus(source) ==
  CASE source = "law" -> LawCorpus
    [] source = "rule" -> RuleCorpus
    [] OTHER -> CaseCorpus

\* the lists a dense search for k documents may return: at most k documents
\* of the index, in any order, a chunk possibly more than once
DenseResults(source, k) ==
  UNION { [1..n -> SeqToSet(Corpus(source))] : n \in 0..MinNat(MaxDense, IF k > 0 THEN k ELSE 0) }

\* the similarity the index reports for its i-th result
DenseScoreAt(i) == Scale - 100000 * i

\* the lists the filtered search of the case index may return for a case
\* number: the chunks carrying it, nearest first in either order, at most k
FilteredResults(case_no, k) ==
  LET hits == SelectSeq(CaseCorpus, LAMBDA d : Get(d.metadata, "case_no") = PyStr(case_no))
      rev == [i \in 1..Len(hits) |-> hits[Len(hits) + 1 - i]]
  IN {SliceTo(hits, k), SliceTo(rev, k)}

CaseResponses(case_no, k) ==
  {[raises |-> TRUE, results |-> <<>>]}
    \cup {[raises |-> FALSE, results |-> r] : r \in FilteredResults(case_no, k)}

\* the scores the reranker may give: below the threshold and on it
RerankScores(c) == {c.rerank_threshold - 100000, c.rerank_threshold}

\* the lists the reranker may return for n texts: distinct positions, each scored
RerankResults(c, n) ==
  UNION { { p \in [1..m -> [i : 1..n, s : RerankScores(c)]] :
              \A a, b \in 1..m : a # b => p[a].i # p[b].i }
          : m \in 0..MinNat(MaxRerankPairs, n) }

\* ------------------------------------------------------------------------
\* The pipelines the model runs: a configuration and whether a Cohere client
\* was created (lines 876-883)
\* ------------------------------------------------------------------------
Small == [RAGConfig EXCEPT !.search_multiplier = 1, !.case_candidate_k = 2,
                           !.rerank_max_documents = 3, !.case_context_top_k = 2]

Setups ==
  { [config |-> [Small EXCEPT !.k_law = 2, !.k_rule = 1, !.k_case = 2,
                              !.case_candidate_k = 1],
     cohere |-> TRUE, corpus |-> {}],
    [config |-> [Small EXCEPT !.k_law = 1, !.k_rule = 1, !.k_case = -1,
                              !.case_expand_top_n = PyInt(2), !.enable_rerank = FALSE,
                              !.hybrid_fusion = "rank_sum", !.enable_bm25_title = FALSE],
     cohere |-> TRUE, corpus |-> {}],
    [config |-> [Small EXCEPT !.k_law = 1, !.k_rule = 2, !.k_case = 1,
                              !.enable_bm25 = FALSE, !.rerank_max_documents = -1],
     cohere |-> FALSE, corpus |-> {}],
    [config |-> [Small EXCEPT !.k_law = 1, !.k_rule = -1, !.k_case = -1,
                              !.case_expand_top_n = PyInt(1),
                              !.hybrid_fusion = "weighted"],
     cohere |-> TRUE, corpus |-> {}],
    [config |-> [Small EXCEPT !.k_law = 2, !.k_rule = 1, !.k_case = 1,
                              !.case_candidate_k = 1, !.case_expand_top_n = PyInt(0),
                              !.enable_rerank = FALSE, !.sparse_mode = "global"],
     cohere |-> FALSE, corpus |-> {"law", "rule", "case"}],
    [config |-> [Small EXCEPT !.k_law = 1, !.k_rule = 1, !.k_case = 2,
                              !.enable_rerank = FALSE],
     cohere |-> FALSE, corpus |-> {"law", "rule", "case"}] }

UserInputs == {<<"a">>}

\* what the normalizer LLM may answer
NormalizerOutputs == {<<" ", "b", "\n">>, <<" ">>}

\* what the generator LLM may answer
GeneratorOutputs == {<<" ", "o", "k">>}

NoAnswerText == <<"NO RELEVANT LAW OR CASE FOUND">>

ApologyText == <<"ANSWER GENERATION FAILED">>

\* ------------------------------------------------------------------------
\* State
\* ------------------------------------------------------------------------
VARIABLES
  config,               \* RAGPipeline.config
  _cohere_client,       \* TRUE when a Cohere client was created
  call,                 \* a call of one function on its own: its name, arguments,
                        \* return value and whether it has returned (NoCall when
                        \* the pipeline runs)
  observed,             \* what the pipeline was seen to do: the case numbers handed
                        \* to get_full_case_context in this request, the branch each
                        \* call of _hybrid_fuse_per_source took, the sources some call
                        \* of build_global_bm25 was given documents for, and those of
                        \* the last call (until a request begins)
  requests,             \* the calls of _hybrid_fuse_per_source that run at the same
                        \* time on this pipeline (<<>> when one request runs alone)
  corpus_docs,          \* source -> the documents the application holds to hand to
                        \* build_global_bm25 (<<>> when it holds none)
  _global_bm25,         \* RAGPipeline._global_bm25: source -> built index
  pc,                   \* where answer_with_trace stands
  user_input,           \* arguments of answer_with_trace
  skip_normalization,
  normalizer,           \* what the normalizer call did: "", "skipped", "returned", "raised"
  normalized_query,
  query,                \* the argument of triple_hybrid_retrieval
  dense_docs,           \* source -> candidates of that source (docs_law, docs_rule,
                        \* docs_case_chunks), until _cap_for_rerank has read them
  combined_for_rerank,  \* these four are locals of triple_hybrid_retrieval: they
  reranker,             \* hold their values until the per-source split has read them
                        \* (reranker: what the rerank call did: "", "not_run",
                        \* "returned", "raised")
  ranked,
  selected_docs,        \* the list the per-source split reads (after line 1245)
  unsorted_docs,        \* final_law + final_rule + final_case (line 1288)
  final_docs,           \* what triple_hybrid_retrieval returns
  generator,            \* what the generator call did: "", "not_called", "returned", "raised"
  result,               \* what answer_with_trace returns
  raised                \* the exception that left answer_with_trace, "" if none

vars == <<config, _cohere_client, call, observed, requests, corpus_docs, _global_bm25, pc, user_input, skip_normalization,
          normalizer, normalized_query, query, dense_docs, combined_for_rerank,
          reranker, ranked, selected_docs, unsorted_docs, final_docs, generator,
          result, raised>>

Sources == <<"law", "rule", "case">>

NoResult == [normalized_query |-> <<>>, references |-> <<>>, answer |-> <<>>, docs |-> <<>>]

NoDocs == [source \in SeqToSet(Sources) |-> <<>>]

NoCall == [fn |-> "", args |-> <<>>, ret |-> <<>>, done |-> FALSE]

NoPath == [source \in SeqToSet(Sources) |-> ""]

NoObserved ==
  [case_ranked |-> <<>>, case_searches |-> <<>>, path |-> NoPath, built |-> {},
   last_build |-> {}]

Init ==
  /\ \E setup \in Setups :
       /\ RAGConfig_post_init(setup.config)
       /\ config = setup.config
       /\ _cohere_client = (setup.config.enable_rerank /\ setup.cohere)
       /\ corpus_docs = [source \in SeqToSet(Sources) |->
                          IF source \in setup.corpus THEN Corpus(source) ELSE <<>>]
  /\ call = NoCall
  /\ observed = NoObserved
  /\ requests = <<>>
  /\ _global_bm25 = <<>>
  /\ pc = "idle"
  /\ user_input = <<>>
  /\ skip_normalization = FALSE
  /\ normalizer = ""
  /\ normalized_query = <<>>
  /\ query = <<>>
  /\ dense_docs = NoDocs
  /\ combined_for_rerank = <<>>
  /\ reranker = ""
  /\ ranked = RankedNone
  /\ selected_docs = <<>>
  /\ unsorted_docs = <<>>
  /\ final_docs = <<>>
  /\ generator = ""
  /\ result = NoResult
  /\ raised = ""

\* ------------------------------------------------------------------------
\* answer_with_trace, step by step
\* ------------------------------------------------------------------------
\* src/module/rag_module.py:945  build_global_bm25(law_docs=, rule_docs=, case_docs=):
\* each argument is None (here <<>>) or the documents the application holds
build_global_bm25(law_docs, rule_docs, case_docs) ==
  /\ pc = "idle"
  /\ <<law_docs, rule_docs, case_docs>> # <<<<>>, <<>>, <<>>>>
  /\ _global_bm25' = _build(config, _build(config, _build(config, _global_bm25,
                              "law", law_docs), "rule", rule_docs), "case", case_docs)
  /\ \E given \in {{source \in SeqToSet(Sources) :
                      [law |-> law_docs, rule |-> rule_docs, case |-> case_docs][source] # <<>>}} :
       observed' = [observed EXCEPT !.built = @ \cup given, !.last_build = given]
  /\ UNCHANGED <<config, _cohere_client, call, requests, corpus_docs, pc, user_input, skip_normalization,
                 normalizer, normalized_query, query, dense_docs, combined_for_rerank,
                 reranker, ranked, selected_docs, unsorted_docs, final_docs, generator,
                 result, raised>>

\* a call answer_with_trace(user_input, skip_normalization=...)
Request(u, skip) ==
  /\ pc = "idle"
  /\ pc' = "normalize"
  /\ user_input' = u
  /\ skip_normalization' = skip
  /\ observed' = [observed EXCEPT !.case_ranked = <<>>, !.case_searches = <<>>,
                                  !.path = NoPath, !.last_build = {}]
  /\ UNCHANGED <<config, _cohere_client, call, requests, corpus_docs, _global_bm25, normalizer, normalized_query, query,
                 dense_docs, combined_for_rerank, reranker, ranked, selected_docs,
                 unsorted_docs, final_docs, generator, result, raised>>

AfterNormalize(how, q) ==
  /\ normalizer' = how
  /\ normalized_query' = q
  /\ query' = q
  /\ pc' = "dense_law"
  /\ UNCHANGED <<config, _cohere_client, call, observed, requests, corpus_docs, _global_bm25, user_input, skip_normalization,
                 dense_docs, combined_for_rerank, reranker, ranked, selected_docs,
                 unsorted_docs, final_docs, generator, result, raised>>

\* line 1443 with skip_normalization
NormalizeSkipped ==
  /\ pc = "normalize"
  /\ skip_normalization
  /\ AfterNormalize("skipped", user_input)

\* src/module/rag_module.py:902  normalize_query: the chain returns `out`
NormalizeReturns(out) ==
  /\ pc = "normalize"
  /\ ~skip_normalization
  /\ AfterNormalize("returned", IF Strip(out) # <<>> THEN Strip(out) ELSE user_input)

\* a normalize_query whose except branch returns an empty string
normalize_query_except_Empty(u) == <<>>

\* the value normalize_query returns when the chain raises (lines 914-916)
normalize_query_except(u) == u

\* src/module/rag_module.py:902  normalize_query: the chain raises
NormalizeRaises ==
  /\ pc = "normalize"
  /\ ~skip_normalization
  /\ AfterNormalize("raised", normalize_query_except(user_input))

Stage(source) == "dense_" \o source

StageAfter(source) ==
  CASE source = "law" -> "dense_rule"
    [] source = "rule" -> "dense_case"
    [] OTHER -> "fuse"

\* the k of lines 1215, 1219, 1223
DenseK(c, source) ==
  CASE source = "law" -> c.k_law * c.search_multiplier
    [] source = "rule" -> c.k_rule * c.search_multiplier
    [] OTHER -> c.case_candidate_k

AfterSearch(source, docs) ==
  /\ dense_docs' = [dense_docs EXCEPT ![source] = _attach_source(docs, source)]
  /\ pc' = StageAfter(source)
  /\ UNCHANGED <<config, _cohere_client, call, observed, requests, corpus_docs, _global_bm25, user_input, skip_normalization,
                 normalizer, normalized_query, query, combined_for_rerank, reranker,
                 ranked, selected_docs, unsorted_docs, final_docs, generator, result,
                 raised>>

\* src/module/rag_module.py:1067  _search_dense_candidates: the scored search returns
SearchScored(source) ==
  /\ pc = Stage(source)
  /\ \E r \in DenseResults(source, DenseK(config, source)) :
       AfterSearch(source,
         [i \in 1..Len(r) |->
            SetMeta(SetMeta(r[i], "__dense_score", PyFloat(DenseScoreAt(i))),
                    "__dense_rank", PyInt(i))])

\* lines 1079-1085: the scored search raises, the unscored search returns
SearchUnscored(source) ==
  /\ pc = Stage(source)
  /\ \E r \in DenseResults(source, DenseK(config, source)) :
       AfterSearch(source, [i \in 1..Len(r) |-> SetMeta(r[i], "__dense_rank", PyInt(i))])

\* an exception leaves answer_with_trace
Raise(e) ==
  /\ pc' = "raised"
  /\ raised' = e
  /\ UNCHANGED <<config, _cohere_client, call, observed, requests, corpus_docs, _global_bm25, user_input, skip_normalization,
                 normalizer, normalized_query, query, dense_docs, combined_for_rerank,
                 reranker, ranked, selected_docs, unsorted_docs, final_docs, generator,
                 result>>

\* lines 1079-1080: the scored search raises and the unscored search, which
\* no try encloses, raises too
SearchRaises(source) ==
  /\ pc = Stage(source)
  /\ Raise("dense search")

\* lines 1228-1230: the three calls of _hybrid_fuse_per_source, in order
FuseResults ==
  [source \in SeqToSet(Sources) |->
     _hybrid_fuse_per_source(config, _global_bm25, source, query, dense_docs[source])]

\* the position in Sources of the first call that raises, 0 when none does
FirstFuseRaise(results) ==
  IF \E i \in 1..Len(Sources) : results[Sources[i]].raises
  THEN CHOOSE i \in 1..Len(Sources) :
         /\ results[Sources[i]].raises
         /\ \A j \in 1..(i - 1) : ~results[Sources[j]].raises
  ELSE 0

\* the indices after the calls before position `upto` have written into the
\* documents of their index
IndicesAfterFuse(results, upto) ==
  [source \in DOMAIN _global_bm25 |->
     IF /\ \E i \in 1..(upto - 1) : Sources[i] = source
        /\ UseGlobal(config, _global_bm25, source)
     THEN [_global_bm25[source] EXCEPT !._docs = results[source]._docs]
     ELSE _global_bm25[source]]

\* the branch each call up to position `upto` took
PathsTaken(results, upto) ==
  [source \in SeqToSet(Sources) |->
     IF \E i \in 1..upto : Sources[i] = source THEN results[source].path ELSE ""]

\* line 998: self._global_bm25[source] of a source without an index is a
\* KeyError, which leaves answer_with_trace
FuseRaises ==
  /\ pc = "fuse"
  /\ \E results \in {FuseResults} :
       \E first \in {FirstFuseRaise(results)} :
         /\ first # 0
         /\ _global_bm25' = IndicesAfterFuse(results, first)
         /\ observed' = [observed EXCEPT !.path = PathsTaken(results, first)]
  /\ pc' = "raised"
  /\ raised' = "KeyError"
  /\ UNCHANGED <<config, _cohere_client, call, requests, corpus_docs, user_input, skip_normalization,
                 normalizer, normalized_query, query, dense_docs, combined_for_rerank,
                 reranker, ranked, selected_docs, unsorted_docs, final_docs, generator,
                 result>>

\* lines 1228-1232: fusion per source (docs_law, docs_rule and docs_case_chunks
\* are assigned the fused lists), then _cap_for_rerank
FuseAndCap ==
  /\ pc = "fuse"
  /\ \E results \in {FuseResults} :
       /\ FirstFuseRaise(results) = 0
       /\ \E fused \in {[source \in SeqToSet(Sources) |-> results[source].out]} :
            /\ combined_for_rerank' = _cap_for_rerank(config, fused["law"], fused["rule"], fused["case"])
            /\ dense_docs' = fused
       /\ _global_bm25' = IndicesAfterFuse(results, Len(Sources) + 1)
       /\ observed' = [observed EXCEPT !.path = PathsTaken(results, Len(Sources))]
  /\ pc' = "rerank"
  /\ UNCHANGED <<config, _cohere_client, call, requests, corpus_docs, user_input, skip_normalization,
                 normalizer, normalized_query, query, reranker, ranked, selected_docs,
                 unsorted_docs, final_docs, generator, result, raised>>

\* lines 1234-1245 once _rerank has returned `r`
AfterRerank(how, r) ==
  /\ reranker' = how
  /\ ranked' = r
  /\ selected_docs' = _dedupe_docs(SelectRanked(config, combined_for_rerank, r),
                                   config.dedupe_key_fields)
  /\ dense_docs' = NoDocs
  /\ pc' = "split"
  /\ UNCHANGED <<config, _cohere_client, call, observed, requests, corpus_docs, _global_bm25, user_input, skip_normalization,
                 normalizer, normalized_query, query, combined_for_rerank,
                 unsorted_docs, final_docs, generator, result, raised>>

\* line 1234 with enable_rerank off, or _rerank without a client (lines 1174-1175)
RerankNotRun ==
  /\ pc = "rerank"
  /\ (~config.enable_rerank \/ ~_cohere_client)
  /\ AfterRerank("not_run", RankedNone)

\* src/module/rag_module.py:1172  _rerank: the Cohere call returns
RerankReturns ==
  /\ pc = "rerank"
  /\ config.enable_rerank /\ _cohere_client
  /\ \E pairs \in RerankResults(config, Len(combined_for_rerank)) :
       AfterRerank("returned", RankedList(pairs))

\* what _rerank returns when the Cohere call raises (lines 1187-1189)
_rerank_except == RankedNone

\* src/module/rag_module.py:1172  _rerank: the Cohere call raises
RerankRaises ==
  /\ pc = "rerank"
  /\ config.enable_rerank /\ _cohere_client
  /\ AfterRerank("raised", _rerank_except)

\* lines 1247-1290: split per source, choose and expand the cases, sort
SplitExpandSort ==
  /\ pc = "split"
  /\ LET final_law == final_law_of(config, selected_docs)
         final_rule == final_rule_of(config, selected_docs)
         chosen_case_docs == chosen_case_docs_of(config, selected_docs)
         n == Len(chosen_case_docs)
     IN \E resps \in [1..n -> UNION {CaseResponses(<<"A">>, config.case_context_top_k),
                                      CaseResponses(<<"B">>, config.case_context_top_k)}] :
          /\ \A i \in 1..n :
               resps[i] \in CaseResponses(Str(Get(chosen_case_docs[i].metadata, "case_no")),
                                          config.case_context_top_k)
          /\ LET final_case == ExpansionStep(config, FromSource(selected_docs, "case"), resps)
             IN /\ unsorted_docs' = final_law \o final_rule \o final_case
                /\ final_docs' = SortByPriority(final_law \o final_rule \o final_case)
          \* line 1249: the case numbers of case_ranked_chunks (<<>> for a chunk
          \* without one); line 1271: one call of get_full_case_context per
          \* chosen chunk
          /\ \E case_ranked_chunks \in {FromSource(selected_docs, "case")} :
               observed' = [observed EXCEPT
                 !.case_ranked =
                   [i \in 1..Len(case_ranked_chunks) |->
                      StrOrEmpty(Get(case_ranked_chunks[i].metadata, "case_no"))],
                 !.case_searches =
                   [i \in 1..n |-> Str(Get(chosen_case_docs[i].metadata, "case_no"))]]
  /\ pc' = "answer"
  /\ combined_for_rerank' = <<>>
  /\ reranker' = ""
  /\ ranked' = RankedNone
  /\ selected_docs' = <<>>
  /\ UNCHANGED <<config, _cohere_client, call, requests, corpus_docs, _global_bm25, user_input, skip_normalization,
                 normalizer, normalized_query, query, dense_docs, generator, result, raised>>

Return(how, r) ==
  /\ generator' = how
  /\ result' = r
  /\ pc' = "done"
  /\ UNCHANGED <<config, _cohere_client, call, observed, requests, corpus_docs, _global_bm25, user_input, skip_normalization,
                 normalizer, normalized_query, query, dense_docs, combined_for_rerank,
                 reranker, ranked, selected_docs, unsorted_docs, final_docs, raised>>

\* lines 1448-1454
AnswerEmpty ==
  /\ pc = "answer"
  /\ final_docs = <<>>
  /\ Return("not_called",
            [normalized_query |-> normalized_query, references |-> <<>>,
             answer |-> NoAnswerText, docs |-> <<>>])

\* a generator call that is not guarded by the emptiness test of line 1448
GenerateReturns_Unguarded(out) ==
  /\ pc = "answer"
  /\ Return("returned",
            [normalized_query |-> normalized_query, references |-> format_references(final_docs),
             answer |-> Strip(out), docs |-> final_docs])

\* lines 1456-1489: the generator chain returns `out`
GenerateReturns(out) ==
  /\ pc = "answer"
  /\ final_docs # <<>>
  /\ Return("returned",
            [normalized_query |-> normalized_query, references |-> format_references(final_docs),
             answer |-> Strip(out), docs |-> final_docs])

\* an except branch that gives up the references with the answer
GenerateRaises_NoReferences ==
  /\ pc = "answer"
  /\ final_docs # <<>>
  /\ Return("raised",
            [normalized_query |-> normalized_query, references |-> <<>>,
             answer |-> ApologyText, docs |-> final_docs])

\* lines 1480-1489: the generator chain raises
GenerateRaises ==
  /\ pc = "answer"
  /\ final_docs # <<>>
  /\ Return("raised",
            [normalized_query |-> normalized_query, references |-> format_references(final_docs),
             answer |-> ApologyText, docs |-> final_docs])

Next ==
  \/ \E law_docs \in {<<>>, corpus_docs["law"]} :
          build_global_bm25(law_docs, corpus_docs["rule"], corpus_docs["case"])
  \/ \E u \in UserInputs, skip \in BOOLEAN : Request(u, skip)
  \/ NormalizeSkipped
  \/ \E out \in NormalizerOutputs : NormalizeReturns(out)
  \/ NormalizeRaises
  \/ \E i \in 1..Len(Sources) : SearchScored(Sources[i])
  \/ \E i \in 1..Len(Sources) : SearchUnscored(Sources[i])
  \/ \E i \in 1..Len(Sources) : SearchRaises(Sources[i])
  \/ FuseRaises
  \/ FuseAndCap
  \/ RerankNotRun
  \/ RerankReturns
  \/ RerankRaises
  \/ SplitExpandSort
  \/ AnswerEmpty
  \/ \E out \in GeneratorOutputs : GenerateReturns(out)
  \/ GenerateRaises

Spec == Init /\ [][Next]_vars

\* The pipeline with the progress its own code makes: a step that waits for no
\* external call is taken once it can be.  Nothing is assumed of the dense
\* searches, the filtered case search, the reranker and the two LLM chains: a
\* call of theirs returns, raises, or never comes back.  No call is made with
\* a timeout (lines 902-916, 919-932, 1067-1085, 1172-1189, 1468-1482), so
\* the pipeline has no step of its own that ends a wait.  The fusion stage
\* (lines 1228-1232) is code of the pipeline alone: in every state at
\* pc = "fuse" exactly one of FuseRaises and FuseAndCap can be taken and both
\* leave the stage, so their weak fairness is that the run is not at
\* pc = "fuse" for ever.
SpecLive ==
  /\ Init /\ [][Next]_vars
  /\ WF_vars(NormalizeSkipped)
  /\ []<>(pc # "fuse")
  /\ WF_vars(RerankNotRun)
  /\ WF_vars(SplitExpandSort /\ chosen_case_docs_of(config, selected_docs) = <<>>)
  /\ WF_vars(AnswerEmpty)

\* ------------------------------------------------------------------------
\* The functions on their own: one call of a function on arguments drawn from
\* bounded sets, and its return
\* ------------------------------------------------------------------------
\* the most candidates handed to the scorer
MaxScored == 2

\* the most documents of a list handed to the context formatter
MaxFormatted == 3

ScorerTexts == {<<>>, <<"a">>, <<"b">>, <<"a", " ", "b">>, <<"a", " ", "a">>}

ScorerQueries == {<<>>, <<" ">>, <<"a">>, <<"b">>, <<"a", " ", "a">>, <<"c">>}

SeqsUpTo(S, n) == UNION {[1..m -> S] : m \in 0..n}

ScorerCalls ==
  {[fn |-> "_compute_bm25_scores",
    args |-> [BM25_AVAILABLE |-> avail, query |-> q,
              docs |-> [i \in 1..Len(texts) |-> Doc(texts[i], <<>>)]],
    ret |-> <<>>, done |-> FALSE] :
     avail \in BOOLEAN, q \in ScorerQueries, texts \in SeqsUpTo(ScorerTexts, MaxScored)}

\* the calls of the text scorer: the same queries and strings
TextScorerCalls ==
  {[fn |-> "_compute_bm25_scores_from_texts",
    args |-> [BM25_AVAILABLE |-> avail, query |-> q, texts |-> texts],
    ret |-> <<>>, done |-> FALSE] :
     avail \in BOOLEAN, q \in ScorerQueries, texts \in SeqsUpTo(ScorerTexts, MaxScored)}

\* the most documents handed to BM25InvertedIndex.build
MaxIndexed == 3

\* the values of top_k of BM25InvertedIndex.search
IndexTopKs == {0, 1, 2, 3}

\* the calls of BM25InvertedIndex.search: an index built from up to MaxIndexed
\* documents without metadata (equal bodies are duplicates), a query, top_k
IndexCalls ==
  {[fn |-> "BM25InvertedIndex.search",
    args |-> [docs |-> [i \in 1..Len(texts) |-> Doc(texts[i], <<>>)], query |-> q,
              top_k |-> k],
    ret |-> <<>>, done |-> FALSE] :
     texts \in SeqsUpTo(ScorerTexts, MaxIndexed), q \in ScorerQueries, k \in IndexTopKs}

\* the documents a final list may hold: the chunks of the three indices with
\* their source attached, a chunk of priority 11, and an expanded case
FormatPool ==
  SeqToSet(_attach_source(LawCorpus, "law")) \cup SeqToSet(_attach_source(RuleCorpus, "rule"))
    \cup SeqToSet(_attach_source(CaseCorpus, "case"))
    \cup {Doc(<<"b">>, [chunk_id |-> PyInt(7), priority |-> PyInt(11), __source_index |-> S1("rule")]),
          Doc(<<ExpandedPrefix, "a", "]", "\n", "b", "\n", "a">>,
              [chunk_id |-> PyInt(9), case_no |-> S1("A"), title |-> S1("a"),
               __source_index |-> S1("case"), __expanded |-> PyTrue])}

\* a list triple_hybrid_retrieval may return: no dedupe key twice, sorted by
\* the coerced priority
IsFinalList(docs) ==
  /\ \A i, j \in 1..Len(docs) :
       i < j => /\ DocKey(docs[i], RAGConfig.dedupe_key_fields)
                     # DocKey(docs[j], RAGConfig.dedupe_key_fields)
                /\ PriorityKey(docs[i]) <= PriorityKey(docs[j])

FinalLists(n) == {docs \in SeqsUpTo(FormatPool, n) : IsFinalList(docs)}

FormatCalls ==
  {[fn |-> "format_context", args |-> [docs |-> docs], ret |-> <<>>, done |-> FALSE] :
     docs \in FinalLists(MaxFormatted)}

\* a text of n characters
LongText(n) == [i \in 1..n |-> "c"]

\* extra_context: None, the empty text, blank texts, short texts, and texts
\* around the 12,000 characters
ExtraContexts ==
  {None, PyStr(<<>>), S1(" "), PyStr(<<" ", "\n">>), S1("c"), PyStr(<<" ", "c", "\n">>),
   PyStr(LongText(ContractMaxChars)), PyStr(LongText(ContractMaxChars + 1)),
   PyStr(<<" ">> \o LongText(ContractMaxChars) \o <<" ">>)}

ContextCalls ==
  {[fn |-> "answer_with_trace",
    args |-> [docs |-> docs, extra_context |-> e, use_contract_mode |-> m],
    ret |-> <<>>, done |-> FALSE] :
     docs \in FinalLists(1) \ {<<>>}, e \in ExtraContexts, m \in BOOLEAN}

\* the configurations handed to RAGConfig(...): the default one with one or
\* two options set
ConfigChanges ==
  [k_law : {0, 1}] \cup [k_rule : {-1, 1}] \cup [k_case : {0, 1}]
    \cup [search_multiplier : {0, 1}] \cup [case_candidate_k : {0, 1}]
    \cup [case_context_top_k : {0, 1}] \cup [rerank_max_documents : {0, -1, 1}]
    \cup [rrf_k : {0, 1}] \cup [bm25_k1 : {0, -100, 120}] \cup [bm25_b : {-1, 0, 100, 101}]
    \cup [hybrid_dense_weight : {0, 3000}] \cup [hybrid_sparse_weight : {0, 3000}]
    \cup [hybrid_fusion : {"rrf", "rank_sum", "weighted", "max"}]
    \cup [bm25_algorithm : {"okapi", "plus", "l"}]
    \cup [sparse_mode : {"auto", "candidates", "global", "x"}]
    \cup [enable_bm25 : {FALSE}] \cup [temperature : {0, 201}]

Changed(c, change) ==
  [f \in DOMAIN c |-> IF f \in DOMAIN change THEN change[f] ELSE c[f]]

ConfigCalls ==
  {[fn |-> "RAGConfig", args |-> [config |-> Changed(Changed(RAGConfig, ch1), ch2)],
    ret |-> <<>>, done |-> FALSE] :
     ch1 \in ConfigChanges, ch2 \in ConfigChanges}

InitFn ==
  /\ config = RAGConfig
  /\ _cohere_client = FALSE
  /\ corpus_docs = NoDocs
  /\ call \in ScorerCalls \cup TextScorerCalls \cup IndexCalls \cup FormatCalls \cup ContextCalls \cup ConfigCalls
  /\ observed = NoObserved
  /\ requests = <<>>
  /\ _global_bm25 = <<>>
  /\ pc = "idle"
  /\ user_input = <<>>
  /\ skip_normalization = FALSE
  /\ normalizer = ""
  /\ normalized_query = <<>>
  /\ query = <<>>
  /\ dense_docs = NoDocs
  /\ combined_for_rerank = <<>>
  /\ reranker = ""
  /\ ranked = RankedNone
  /\ selected_docs = <<>>
  /\ unsorted_docs = <<>>
  /\ final_docs = <<>>
  /\ generator = ""
  /\ result = NoResult
  /\ raised = ""

\* the call returns ret
ReturnFrom(fn, ret) ==
  /\ call.fn = fn /\ ~call.done
  /\ call' = [call EXCEPT !.ret = ret, !.done = TRUE]
  /\ UNCHANGED <<config, _cohere_client, observed, requests, corpus_docs, _global_bm25, pc, user_input,
                 skip_normalization, normalizer, normalized_query, query, dense_docs,
                 combined_for_rerank, reranker, ranked, selected_docs, unsorted_docs,
                 final_docs, generator, result, raised>>

\* _compute_bm25_scores(query, docs, ...) as _dense_sparse_fuse calls it
\* (line 1107), in a build with or without the rank_bm25 package
Call_compute_bm25_scores ==
  /\ call.fn = "_compute_bm25_scores"
  /\ ReturnFrom("_compute_bm25_scores",
       IF call.args.BM25_AVAILABLE
       THEN _compute_bm25_scores_rank_bm25(call.args.query, call.args.docs, config.bm25_k1,
                                           config.bm25_b, config.bm25_max_doc_chars)
       ELSE _compute_bm25_scores(call.args.query, call.args.docs, config.bm25_k1,
                                 config.bm25_b, config.bm25_max_doc_chars))

\* _compute_bm25_scores_from_texts(query, texts, ...) as _dense_sparse_fuse
\* calls it for the titles (line 1126), in a build with or without the
\* rank_bm25 package
Call_compute_bm25_scores_from_texts ==
  /\ call.fn = "_compute_bm25_scores_from_texts"
  /\ ReturnFrom("_compute_bm25_scores_from_texts",
       IF call.args.BM25_AVAILABLE
       THEN _compute_bm25_scores_from_texts_rank_bm25(
              call.args.query, call.args.texts, config.bm25_k1, config.bm25_b,
              config.bm25_max_doc_chars)
       ELSE [raised |-> "",
             scores |-> _compute_bm25_scores_from_texts(
                          call.args.query, call.args.texts, config.bm25_k1, config.bm25_b,
                          config.bm25_max_doc_chars)])

\* BM25InvertedIndex(...).build(docs) as build_global_bm25 does it (lines
\* 961-968), then search(query, top_k=top_k) (line 473): the (document, score)
\* pairs
Call_BM25InvertedIndex_search ==
  /\ call.fn = "BM25InvertedIndex.search"
  /\ \E index \in {BM25InvertedIndex_build(config, call.args.docs)} :
       \E pairs \in {BM25InvertedIndex_search(index, call.args.query, call.args.top_k)} :
         ReturnFrom("BM25InvertedIndex.search",
                    [r \in 1..Len(pairs) |-> [doc |-> index._docs[pairs[r].i],
                                               score |-> pairs[r].s]])

\* format_context(docs) as answer_with_trace calls it (line 1457)
Call_format_context ==
  /\ call.fn = "format_context"
  /\ ReturnFrom("format_context", format_context(config, call.args.docs))

\* lines 1456-1461 of answer_with_trace on a non-empty final list: the context
Call_answer_with_trace ==
  /\ call.fn = "answer_with_trace"
  /\ ReturnFrom("answer_with_trace",
       ContextOf(config, call.args.docs, call.args.extra_context,
                 call.args.use_contract_mode))

\* RAGConfig(...), i.e. __post_init__ on the options given
Call_RAGConfig ==
  /\ call.fn = "RAGConfig"
  /\ ReturnFrom("RAGConfig",
       IF RAGConfig_post_init(call.args.config) THEN "constructed" ELSE "ValueError")

NextFn ==
  \/ Call_compute_bm25_scores
  \/ Call_compute_bm25_scores_from_texts
  \/ Call_BM25InvertedIndex_search
  \/ Call_format_context
  \/ Call_answer_with_trace
  \/ Call_RAGConfig

SpecFn == InitFn /\ [][NextFn]_vars

\* ------------------------------------------------------------------------
\* Two requests at the same time on one pipeline (a module-level pipeline
\* serving a threaded server): each is in its call of
\* _hybrid_fuse_per_source("law", query, docs_law), the one stage that reads
\* and writes what the pipeline shares, the indices of _global_bm25.  The
\* interleaving is at the two blocks of the global branch (lines 998-1008 and
\* 1010-1065); threads may interleave more finely than that.
\* ------------------------------------------------------------------------
ConcQueries == {<<"a">>, <<"b">>}

\* the two requests
ConcRequests == {1, 2}

\* the pipelines: sparse_mode auto with and without an index, global without
ConcSetups ==
  { [config |-> [Small EXCEPT !.k_law = 2], corpus |-> {"law"}],
    [config |-> [Small EXCEPT !.k_law = 2], corpus |-> {}],
    [config |-> [Small EXCEPT !.k_law = 2, !.sparse_mode = "global"], corpus |-> {}] }

\* docs_law as lines 1214-1217 leave it: the scored results of the law index
ConcDense(c) ==
  { _attach_source([i \in 1..Len(r) |->
                      SetMeta(SetMeta(r[i], "__dense_score", PyFloat(DenseScoreAt(i))),
                              "__dense_rank", PyInt(i))], "law") :
      r \in DenseResults("law", c.k_law * c.search_multiplier) }

\* a call of _hybrid_fuse_per_source that has not begun
ConcCall(q, docs) ==
  [pc |-> "called", source |-> "law", query |-> q, dense_docs |-> docs,
   hits |-> <<>>, ret |-> <<>>]

\* the indices build_global_bm25 leaves for the documents the application holds
IndicesBuilt(c, docs) ==
  _build(c, _build(c, _build(c, <<>>, "law", docs["law"]), "rule", docs["rule"]),
         "case", docs["case"])

InitConc ==
  /\ \E setup \in ConcSetups :
       /\ RAGConfig_post_init(setup.config)
       /\ config = setup.config
       /\ corpus_docs = [source \in SeqToSet(Sources) |->
                          IF source \in setup.corpus THEN Corpus(source) ELSE <<>>]
       /\ _global_bm25 = IndicesBuilt(setup.config, corpus_docs)
       /\ requests \in [ConcRequests -> {ConcCall(q, docs) : q \in ConcQueries,
                                                      docs \in ConcDense(setup.config)}]
  /\ _cohere_client = FALSE
  /\ call = NoCall
  /\ observed = NoObserved
  /\ pc = "idle"
  /\ user_input = <<>>
  /\ skip_normalization = FALSE
  /\ normalizer = ""
  /\ normalized_query = <<>>
  /\ query = <<>>
  /\ dense_docs = NoDocs
  /\ combined_for_rerank = <<>>
  /\ reranker = ""
  /\ ranked = RankedNone
  /\ selected_docs = <<>>
  /\ unsorted_docs = <<>>
  /\ final_docs = <<>>
  /\ generator = ""
  /\ result = NoResult
  /\ raised = ""

\* a step of request rid that leaves it as `after` and the indices as `indices`
ConcStep(rid, after, indices) ==
  /\ requests' = [requests EXCEPT ![rid] = after]
  /\ _global_bm25' = indices
  /\ UNCHANGED <<config, _cohere_client, call, observed, corpus_docs, pc, user_input,
                 skip_normalization, normalizer, normalized_query, query, dense_docs,
                 combined_for_rerank, reranker, ranked, selected_docs, unsorted_docs,
                 final_docs, generator, result, raised>>

\* lines 988-989: the candidate branch, on the request's own documents
ConcCandidate(rid) ==
  /\ requests[rid].pc = "called"
  /\ ~UseGlobal(config, _global_bm25, requests[rid].source)
  /\ ConcStep(rid,
       [requests[rid] EXCEPT !.pc = "returned",
          !.ret = _dense_sparse_fuse(config, requests[rid].query, requests[rid].dense_docs)],
       _global_bm25)

\* line 998 for a source without an index: KeyError
ConcRaises(rid) ==
  /\ requests[rid].pc = "called"
  /\ UseGlobal(config, _global_bm25, requests[rid].source)
  /\ requests[rid].source \notin DOMAIN _global_bm25
  /\ ConcStep(rid, [requests[rid] EXCEPT !.pc = "raised"], _global_bm25)

\* lines 998-1008: search, then the writes into the documents found
ConcSearch(rid) ==
  /\ requests[rid].pc = "called"
  /\ UseGlobal(config, _global_bm25, requests[rid].source)
  /\ requests[rid].source \in DOMAIN _global_bm25
  /\ \E source \in {requests[rid].source} :
       \E sparse_pairs \in {BM25InvertedIndex_search(_global_bm25[source], requests[rid].query,
                                                      SparseK(config, source))} :
         ConcStep(rid,
           [requests[rid] EXCEPT !.pc = "searched",
              !.dense_docs = _attach_source(@, source),
              !.hits = [r \in 1..Len(sparse_pairs) |-> sparse_pairs[r].i]],
           [_global_bm25 EXCEPT ![source]._docs = AnnotateHits(source, @, sparse_pairs)])

\* lines 1010-1065: merge, rank maps read from the metadata, fusion, the
\* writes of __hybrid_score and __hybrid_rank, return
ConcMerge(rid) ==
  /\ requests[rid].pc = "searched"
  /\ \E source \in {requests[rid].source} :
       \E r \in {GlobalAfterSearch(config, requests[rid].dense_docs,
                                   _global_bm25[source]._docs, requests[rid].hits)} :
         ConcStep(rid,
           [requests[rid] EXCEPT !.pc = "returned", !.ret = r.out],
           [_global_bm25 EXCEPT ![source]._docs = r._docs])

NextConc ==
  \/ \E rid \in ConcRequests : ConcCandidate(rid)
  \/ \E rid \in ConcRequests : ConcRaises(rid)
  \/ \E rid \in ConcRequests : ConcSearch(rid)
  \/ \E rid \in ConcRequests : ConcMerge(rid)

SpecConc == InitConc /\ [][NextConc]_vars

\* ------------------------------------------------------------------------
\* Properties
\* ------------------------------------------------------------------------
Returned == pc \in {"answer", "done"}

\* the document's metadata has the field, with a value other than None
Has(d, f) == f \in DOMAIN d.metadata /\ d.metadata[f] # None

\* the priority of a document as the specification words it: the metadata
\* priority coerced to an integer, 99 when absent or not coercible
CoercedPriority(d) ==
  IF ~Has(d, "priority") THEN 99
  ELSE LET v == d.metadata["priority"]
       IN IF v.t = "str" THEN (IF StrIntOk(v.s) THEN StrIntVal(v.s) ELSE 99) ELSE v.n

SourceOf(d) == Str(Get(d.metadata, "__source_index"))

\* C1: in the list triple_hybrid_retrieval returns no two documents carry the
\* same chunk_id when both have one; without chunk_id they differ in id, and
\* without both in content
C1_NoSharedChunkId ==
  Returned =>
    \A i, j \in 1..Len(final_docs) :
      i < j =>
        LET a == final_docs[i]
            b == final_docs[j]
        IN /\ (Has(a, "chunk_id") /\ Has(b, "chunk_id")) =>
                a.metadata["chunk_id"] # b.metadata["chunk_id"]
           /\ (~Has(a, "chunk_id") /\ ~Has(b, "chunk_id") /\ Has(a, "id") /\ Has(b, "id")) =>
                a.metadata["id"] # b.metadata["id"]
           /\ (~Has(a, "chunk_id") /\ ~Has(b, "chunk_id") /\ ~Has(a, "id") /\ ~Has(b, "id")) =>
                a.page_content # b.page_content

\* C2: in the final list the coerced priorities never decrease from one
\* document to the next
C2_PriorityMonotone ==
  Returned =>
    \A i \in 1..(Len(final_docs) - 1) :
      CoercedPriority(final_docs[i]) <= CoercedPriority(final_docs[i + 1])

\* C2 witness: the sort has moved a document, and a priority that is not
\* coercible and one given as a string are in the list
C2_Witness ==
  /\ pc = "answer"
  /\ final_docs # unsorted_docs
  /\ \E i \in 1..Len(final_docs) :
       Has(final_docs[i], "priority") /\ final_docs[i].metadata["priority"].t = "str"
         /\ ~StrIntOk(final_docs[i].metadata["priority"].s)
  /\ \E i \in 1..Len(final_docs) :
       Has(final_docs[i], "priority") /\ final_docs[i].metadata["priority"].t = "str"
         /\ StrIntOk(final_docs[i].metadata["priority"].s)

SourceRank(d) ==
  CASE SourceOf(d) = <<"law">> -> 1
    [] SourceOf(d) = <<"rule">> -> 2
    [] OTHER -> 3

\* the selected chunk a final document is, or was expanded from
IsOrigin(chunk, d) ==
  \/ chunk = d
  \/ /\ Get(d.metadata, "__expanded") = PyTrue
     /\ [k \in DOMAIN chunk.metadata |-> d.metadata[k]] = chunk.metadata

OriginPos(selected, d) == CHOOSE p \in 1..Len(selected) : IsOrigin(selected[p], d)

PosIn(docs, d) == CHOOSE p \in 1..Len(docs) : docs[p] = d

TiesKeepOrder(selected, unsorted, final) ==
  \A i, j \in 1..Len(final) :
    (i < j /\ CoercedPriority(final[i]) = CoercedPriority(final[j])) =>
      /\ PosIn(unsorted, final[i]) < PosIn(unsorted, final[j])
      /\ \/ SourceRank(final[i]) < SourceRank(final[j])
         \/ /\ SourceRank(final[i]) = SourceRank(final[j])
            /\ OriginPos(selected, final[i]) < OriginPos(selected, final[j])

\* C3: two documents of equal coerced priority stand in the final list in the
\* order they had before the final sort: law before rule before case, and
\* within a source in the order of the list the split read (fusion order, or
\* the reranker's)
C3_TiesKeepOrder ==
  [][(pc = "split" /\ pc' = "answer") =>
       TiesKeepOrder(selected_docs, unsorted_docs', final_docs')]_vars

\* C3 witness: the sort has moved a document past others while two documents
\* of equal priority are in the list
C3_Witness ==
  /\ pc = "answer"
  /\ final_docs # unsorted_docs
  /\ \E i, j \in 1..Len(final_docs) :
       i < j /\ CoercedPriority(final_docs[i]) = CoercedPriority(final_docs[j])

\* the documents of `docs` up to position i that come from the source of docs[i]
RankInSource(docs, i) ==
  Cardinality({j \in 1..i : SourceOf(docs[j]) = SourceOf(docs[i])})

QuotaOf(d) ==
  CASE SourceOf(d) = <<"law">> -> config.k_law
    [] SourceOf(d) = <<"rule">> -> config.k_rule
    [] OTHER -> config.k_case

\* C4: the final list holds at most k_law + k_rule + k_case documents, at
\* most k_law of the law source, k_rule of the rule source and k_case of the
\* case source (an expanded case counting as one), for every configuration
\* RAGConfig accepts: no document stands beyond the quota of the list or of
\* its source
C4_SizeCap ==
  Returned =>
    \A i \in 1..Len(final_docs) :
      /\ i <= config.k_law + config.k_rule + config.k_case
      /\ RankInSource(final_docs, i) <= QuotaOf(final_docs[i])

\* C5: a dense search that fails (scored and unscored search both raise)
\* does not make the request raise
C5_DenseFailureIsolated == ~(pc = "raised" /\ raised = "dense search")

\* the documents of the pairs at the positions in `which`, in returned order
DocsOfPairs(pairs, combined, n) == [j \in 1..n |-> combined[pairs[j].i]]

\* docs without every document whose dedupe key an earlier one has
FirstOccurrences(docs, key_fields) ==
  LET keep == {p \in 1..Len(docs) :
                 \A q \in 1..(p - 1) : DocKey(docs[q], key_fields) # DocKey(docs[p], key_fields)}
      nth(r) == CHOOSE p \in keep : Cardinality({q \in keep : q < p}) = r - 1
  IN [r \in 1..Cardinality(keep) |-> docs[nth(r)]]

QuotaSum == config.k_law + config.k_rule + config.k_case

RerankReturned == pc = "split" /\ reranker = "returned" /\ ranked.pairs # <<>>

SomeScoreReaches ==
  \E a \in 1..Len(ranked.pairs) : ranked.pairs[a].s >= config.rerank_threshold

AllSelectedReach ==
  \A j \in 1..Len(selected_docs) :
    \E a \in 1..Len(ranked.pairs) :
      /\ ranked.pairs[a].s >= config.rerank_threshold
      /\ combined_for_rerank[ranked.pairs[a].i] = selected_docs[j]

\* C6 as claimed: every document passed to the split has a score that reaches
\* the threshold, unless no score does, and then exactly the first
\* min(k_law + k_rule + k_case, number of pairs) documents are passed on
C6_ThresholdOrFirstK ==
  RerankReturned =>
    IF SomeScoreReaches THEN AllSelectedReach
    ELSE selected_docs =
           DocsOfPairs(ranked.pairs, combined_for_rerank, MinNat(QuotaSum, Len(ranked.pairs)))

\* the number of pairs ranked[:min(QuotaSum, len(ranked))] holds
FallbackCount ==
  LET n == Len(ranked.pairs)
  IN IF QuotaSum >= n THEN n
     ELSE IF QuotaSum >= 0 THEN QuotaSum
     ELSE IF n + QuotaSum > 0 THEN n + QuotaSum ELSE 0

\* C6 amended: ... unless no score does, and then the documents passed on are
\* those of the pairs ranked[:min(k_law + k_rule + k_case, number of pairs)],
\* in returned order, without the documents whose dedupe key an earlier one has
C6_ThresholdOrFirstKDeduped ==
  RerankReturned =>
    IF SomeScoreReaches THEN AllSelectedReach
    ELSE selected_docs =
           FirstOccurrences(DocsOfPairs(ranked.pairs, combined_for_rerank, FallbackCount),
                            config.dedupe_key_fields)

\* C6 witness: no score reaches the threshold, two pairs are passed on and the
\* second repeats the dedupe key of the first
C6_Witness ==
  /\ RerankReturned
  /\ ~SomeScoreReaches
  /\ FallbackCount = 2
  /\ Len(selected_docs) = 1

\* law before rule before case, and within a source by rising __hybrid_rank
InFusedOrder(docs) ==
  \A i, j \in 1..Len(docs) :
    i < j =>
      /\ SourceRank(docs[i]) <= SourceRank(docs[j])
      /\ (SourceRank(docs[i]) = SourceRank(docs[j])
            /\ Has(docs[i], "__hybrid_rank") /\ Has(docs[j], "__hybrid_rank")) =>
           docs[i].metadata["__hybrid_rank"].n < docs[j].metadata["__hybrid_rank"].n

RerankFailed == pc = "split" /\ reranker = "raised"

\* C7 as claimed: when the rerank call raises, the documents entering the
\* split are exactly the capped pre-rerank list in its fused order
C7_FailedRerankKeepsList ==
  RerankFailed =>
    /\ raised = ""
    /\ selected_docs = combined_for_rerank
    /\ Len(combined_for_rerank) <= config.rerank_max_documents
    /\ InFusedOrder(combined_for_rerank)

\* C7 amended: ... are the capped pre-rerank list in its fused order, without
\* the documents whose dedupe key an earlier one (of another source) has
C7_FailedRerankKeepsDedupedList ==
  RerankFailed =>
    /\ raised = ""
    /\ selected_docs = FirstOccurrences(combined_for_rerank, config.dedupe_key_fields)
    /\ Len(combined_for_rerank) <= config.rerank_max_documents
    /\ InFusedOrder(combined_for_rerank)

\* C7 witness: the rerank call raised on a list of three documents in which
\* fusion had put the second dense candidate first, and two sources gave the
\* same chunk
C7_Witness ==
  /\ RerankFailed
  /\ Len(combined_for_rerank) = 3
  /\ selected_docs # combined_for_rerank
  /\ \E i, j \in 1..Len(combined_for_rerank) :
       /\ i < j
       /\ SourceRank(combined_for_rerank[i]) = SourceRank(combined_for_rerank[j])
       /\ combined_for_rerank[i].metadata["__dense_rank"].n
            > combined_for_rerank[j].metadata["__dense_rank"].n

\* C8: when the normalizer raises, the query retrieval runs with and the
\* normalized_query returned are the input text
C8_NormalizerFallback ==
  normalizer = "raised" =>
    /\ normalized_query = user_input
    /\ query = user_input
    /\ (pc = "done" => result.normalized_query = user_input)

\* C8 witness: a request whose normalizer raised has returned documents
C8_Witness ==
  /\ pc = "done"
  /\ normalizer = "raised"
  /\ ~skip_normalization
  /\ result.docs # <<>>

\* C9: with an empty final list the fixed answer is returned with no
\* references and no documents, and the generator is not invoked
C9_EmptyResult ==
  /\ (pc = "done" /\ final_docs = <<>>) =>
       /\ result.answer = NoAnswerText
       /\ result.references = <<>>
       /\ result.docs = <<>>
       /\ generator = "not_called"
  /\ generator \in {"returned", "raised"} => final_docs # <<>>

\* C9 witness: a request has returned with an empty final list
C9_Witness ==
  /\ pc = "done"
  /\ final_docs = <<>>
  /\ result.answer = NoAnswerText

\* C10: when the generator raises, the request returns the apology, the final
\* documents and one reference per final document, in final order
C10_GeneratorFailure ==
  (pc = "done" /\ generator = "raised") =>
    /\ raised = ""
    /\ result.answer = ApologyText
    /\ result.docs = final_docs
    /\ final_docs # <<>>
    /\ Len(result.references) = Len(final_docs)
    /\ \A i \in 1..Len(final_docs) :
         result.references[i] = format_reference_short(final_docs[i])

\* C10 witness: the generator raised on a final list of three documents
C10_Witness ==
  /\ pc = "done"
  /\ generator = "raised"
  /\ Len(final_docs) = 3
  /\ result.answer = ApologyText

\* the per-source fusion has returned: dense_docs holds its three outputs
Fused == pc = "rerank"

\* the values the documents of `docs` that carry the field f have for it
FamilyOf(docs, f) == {docs[i].metadata[f].n : i \in {j \in 1..Len(docs) : Has(docs[j], f)}}

RankFamilies == {"__dense_rank", "__bm25_rank", "__bm25_title_rank", "__hybrid_rank"}

\* C11: after per-source fusion with BM25 enabled, each rank family annotated
\* on the n >= 1 documents of a source is carried by all of them and its
\* values are exactly 1..n
C11_RankDensity ==
  (Fused /\ config.enable_bm25) =>
    \A i \in 1..Len(Sources) :
      LET docs == dense_docs[Sources[i]]
      IN \A f \in RankFamilies :
           FamilyOf(docs, f) # {} =>
             /\ FamilyOf(docs, f) = 1..Len(docs)
             /\ \A j \in 1..Len(docs) : Has(docs[j], f)

\* the documents of `docs` stand at their __hybrid_rank, with scores that
\* never increase
InHybridOrder(docs) ==
  /\ \A i \in 1..Len(docs) :
       /\ Has(docs[i], "__hybrid_rank") /\ Has(docs[i], "__hybrid_score")
       /\ docs[i].metadata["__hybrid_rank"].n = i
  /\ \A i \in 1..(Len(docs) - 1) :
       docs[i].metadata["__hybrid_score"].n >= docs[i + 1].metadata["__hybrid_score"].n

FusionRan(source) ==
  /\ Len(dense_docs[source]) >= 2
  /\ (UseGlobal(config, _global_bm25, source) \/ config.enable_bm25)

ClaimedRRF(c, d) ==
  LET w_title == (c.hybrid_sparse_weight * c.hybrid_sparse_title_ratio) \div 100
      w_body == (c.hybrid_sparse_weight * (100 - c.hybrid_sparse_title_ratio)) \div 100
  IN ((c.hybrid_dense_weight * 100) \div (c.rrf_k + d.metadata["__dense_rank"].n))
     + ((w_body * 100) \div (c.rrf_k + d.metadata["__bm25_rank"].n))
     + ((w_title * 100) \div (c.rrf_k + d.metadata["__bm25_title_rank"].n))

\* C13: under rrf, with the title channel enabled, every fused document carries the three ranks and its
\* __hybrid_score is w_dense / (rrf_k + r_dense) + w_body / (rrf_k + r_body)
\* + w_title / (rrf_k + r_title) with the sparse weight split by the title ratio
C13_RRFFormula ==
  (Fused /\ config.hybrid_fusion = "rrf" /\ config.enable_bm25_title) =>
    \A i \in 1..Len(Sources) :
      \A j \in 1..Len(dense_docs[Sources[i]]) :
        LET d == dense_docs[Sources[i]][j]
        IN Has(d, "__hybrid_score") =>
             /\ Has(d, "__dense_rank") /\ Has(d, "__bm25_rank") /\ Has(d, "__bm25_title_rank")
             /\ d.metadata["__hybrid_score"].n = ClaimedRRF(config, d)

\* docs is a subsequence of the fused list of its source, in that order
InSourceOrder(docs, source) ==
  LET part == FromSource(docs, source)
      full == _dedupe_docs(dense_docs[source], config.dedupe_key_fields)
  IN part = SubSeq(full, 1, Len(part))

\* C20: the list assembled for the reranker has no document beyond position
\* rerank_max_documents, holds a case candidate only when it holds every deduplicated
\* law and rule candidate, and is ordered law, rule, case, each in fusion order
C20_RerankCap ==
  Fused =>
    /\ \A i \in 1..Len(combined_for_rerank) : i <= config.rerank_max_documents
    /\ (FromSource(combined_for_rerank, "case") # <<>> =>
          /\ FromSource(combined_for_rerank, "law")
               = _dedupe_docs(dense_docs["law"], config.dedupe_key_fields)
          /\ FromSource(combined_for_rerank, "rule")
               = _dedupe_docs(dense_docs["rule"], config.dedupe_key_fields))
    /\ \A i, j \in 1..Len(combined_for_rerank) :
         i < j => SourceRank(combined_for_rerank[i]) <= SourceRank(combined_for_rerank[j])
    /\ \A i \in 1..Len(Sources) : InSourceOrder(combined_for_rerank, Sources[i])

\* ascending chunk_id: integers by value, strings as strings
ChunkIdLess(x, y) ==
  IF x.t = "int" /\ y.t = "int" THEN x.n < y.n ELSE StrLess(Str(x), Str(y))

\* the chunks of a case number in the case index, one per chunk_id, in
\* ascending chunk_id order
ChunksOfCase(case_no) ==
  LET hits == SelectSeq(CaseCorpus, LAMBDA d : Get(d.metadata, "case_no") = case_no)
      firsts == SelectSeq(Range(Len(hits)), LAMBDA i :
                  \A j \in 1..(i - 1) :
                    Get(hits[j].metadata, "chunk_id") # Get(hits[i].metadata, "chunk_id"))
  IN StableSort([i \in 1..Len(firsts) |-> hits[firsts[i]]],
                LAMBDA x, y : ChunkIdLess(Get(x.metadata, "chunk_id"), Get(y.metadata, "chunk_id")))

\* the content C15 gives the expanded document of a case chunk d
ClaimedFullText(d) ==
  LET case_no == Get(d.metadata, "case_no")
      title == Or(Get(d.metadata, "title"), Or(Get(d.metadata, "case_name"), PyStr(Str(case_no))))
      chunks == ChunksOfCase(case_no)
  IN <<ExpandedPrefix>> \o Str(title) \o <<"]", "\n">>
       \o Join([i \in 1..Len(chunks) |-> chunks[i].page_content], <<"\n">>)

\* C15: the content of every expanded case document of the final list is the
\* prefix with the title, a newline, and the contents of the distinct chunks
\* of its case number joined by newlines in ascending chunk_id order (all
\* chunks of a case are within case_context_top_k here)
C15_ExpandedContent ==
  Returned =>
    \A i \in 1..Len(final_docs) :
      Get(final_docs[i].metadata, "__expanded") = PyTrue =>
        final_docs[i].page_content = ClaimedFullText(final_docs[i])

\* the responses the case index may give to the filtered searches of a re-run
\* of the expansion step on `cases`
ReRunResponses(cases) ==
  {resps \in [1..Len(cases) -> UNION {CaseResponses(<<"A">>, config.case_context_top_k),
                                       CaseResponses(<<"B">>, config.case_context_top_k)}] :
     \A i \in 1..Len(cases) :
       resps[i] \in CaseResponses(Str(Get(cases[i].metadata, "case_no")),
                                  config.case_context_top_k)}

\* C16: the expansion step applied to the expanded case documents it produced
\* (final_case, the case part of the list before the final sort), against the
\* same case index, yields the same documents
C16_ExpansionIdempotent ==
  pc = "answer" =>
    LET cases == FromSource(unsorted_docs, "case")
    IN (\A i \in 1..Len(cases) : Get(cases[i].metadata, "__expanded") = PyTrue) =>
         \A resps \in ReRunResponses(cases) : ExpansionStep(config, cases, resps) = cases

\* ------------------------------------------------------------------------
\* Properties of the functions on their own (SpecFn)
\* ------------------------------------------------------------------------
Called(fn) == call.fn = fn /\ call.done

\* C14: the candidate scorer returns one score per document (none for no
\* document), no score is negative, and a document with none of the query's
\* tokens scores zero (so every document does for a query without tokens)
C14_ScorerContract ==
  Called("_compute_bm25_scores") =>
    LET docs == call.args.docs
        query_tokens == tokenize(call.args.query)
        scores == call.ret
    IN /\ Len(scores) = Len(docs)
       /\ \A i \in 1..Len(docs) :
            /\ scores[i] >= 0
            /\ (SeqToSet(query_tokens) \cap SeqToSet(tokenize(docs[i].page_content)) = {}) =>
                 scores[i] = 0

\* the context begins with the SECTION 0 header
HasSection0(context) == context # <<>> /\ context[1] = SectionHeader(0)

\* after the header come the contract text t (whole, or its first 11,999
\* characters and an ellipsis; never more than 12,000 characters), an empty
\* line and the SECTION 1-3 blocks
Section0Then(context, t, main) ==
  LET n == Len(context) - Len(main) - 4
      part == SubSeq(context, 3, 2 + n)
  IN /\ n >= 1 /\ n <= 12000
     /\ context[2] = "\n"
     /\ SubSeq(context, 3 + n, Len(context)) = <<"\n", "\n">> \o main
     /\ \/ part = t
        \/ /\ Len(t) > n
           /\ SubSeq(part, 1, n - 1) = SubSeq(t, 1, n - 1)
           /\ part[n] = "..."

\* extra_context as a text: None is no text
TextOf(v) == IF v = None THEN <<>> ELSE Str(v)

\* C17 as claimed: SECTION 0 heads the context exactly when extra_context is
\* non-empty, with at most 12,000 characters of contract text and the other
\* sections after it, whatever use_contract_mode is
C17_Section0 ==
  Called("answer_with_trace") =>
    LET t == TextOf(call.args.extra_context)
    IN /\ (t # <<>>) <=> HasSection0(call.ret)
       /\ HasSection0(call.ret) =>
            Section0Then(call.ret, Strip(t), format_context(config, call.args.docs))

\* C17 amended: ... exactly when extra_context has a character that is not
\* white space; the contract text is extra_context without its surrounding
\* white space
C17_Section0WhenNotBlank ==
  Called("answer_with_trace") =>
    LET t == Strip(TextOf(call.args.extra_context))
    IN /\ (t # <<>>) <=> HasSection0(call.ret)
       /\ HasSection0(call.ret) =>
            Section0Then(call.ret, t, format_context(config, call.args.docs))

\* C17 witness: a contract text of more than 12,000 characters was cut and
\* heads the context of a request not in contract mode
C17_Witness ==
  /\ Called("answer_with_trace")
  /\ ~call.args.use_contract_mode
  /\ Len(TextOf(call.args.extra_context)) > ContractMaxChars
  /\ HasSection0(call.ret)
  /\ call.ret[2 + ContractMaxChars] = "..."

\* the lines of a text
RECURSIVE SplitLines(_)
SplitLines(text) ==
  IF \A i \in 1..Len(text) : text[i] # "\n" THEN <<text>>
  ELSE LET k == CHOOSE i \in 1..Len(text) :
                  text[i] = "\n" /\ \A j \in 1..(i - 1) : text[j] # "\n"
       IN <<SubSeq(text, 1, k - 1)>> \o SplitLines(SubSeq(text, k + 1, Len(text)))

\* the section C18 gives a document
ClaimedSection(d) ==
  IF CoercedPriority(d) \in {1, 2, 4, 5} THEN 1
  ELSE IF CoercedPriority(d) \in {3, 6, 7, 8, 11} THEN 2 ELSE 3

\* the positions of the lines that are the header of section n
HeaderLines(lines, n) == {k \in 1..Len(lines) : lines[k] = <<SectionHeader(n)>>}

\* the lines from line k + 1 up to the next empty line
RECURSIVE BlockAfter(_, _)
BlockAfter(lines, k) ==
  IF k + 1 > Len(lines) \/ lines[k + 1] = <<>> THEN <<>>
  ELSE <<lines[k + 1]>> \o BlockAfter(lines, k + 1)

\* C18: in the formatted context every section that has a document of the
\* list has its header once and no other section has one; the headers stand
\* in the order 1, 2, 3; and under the header of a section stand the lines of
\* exactly the documents of that section, one each, in final-list order
C18_Sections ==
  Called("format_context") =>
    LET docs == call.args.docs
        lines == IF call.ret = <<>> THEN <<>> ELSE SplitLines(call.ret)
        of(n) == SelectSeq(docs, LAMBDA d : ClaimedSection(d) = n)
        line(d) == <<"-", " ">> \o format_reference_line(d, config.rerank_doc_max_chars)
    IN /\ \A n \in 1..3 :
            /\ Cardinality(HeaderLines(lines, n)) = (IF of(n) # <<>> THEN 1 ELSE 0)
            /\ \A k \in HeaderLines(lines, n) :
                 BlockAfter(lines, k) = [i \in 1..Len(of(n)) |-> line(of(n)[i])]
       /\ \A m, n \in 1..3 : \A j \in HeaderLines(lines, m), k \in HeaderLines(lines, n) :
            m < n => j < k
       /\ Len(lines) = Len(docs) + 2 * Cardinality({n \in 1..3 : of(n) # <<>>})
                         - (IF docs = <<>> THEN 0 ELSE 1)

\* C18 witness: a list of three documents, two of one section and one of
\* another, among them one with a priority given as a string
C18_Witness ==
  /\ Called("format_context")
  /\ Len(call.args.docs) = 3
  /\ ClaimedSection(call.args.docs[1]) = ClaimedSection(call.args.docs[2])
  /\ ClaimedSection(call.args.docs[2]) # ClaimedSection(call.args.docs[3])
  /\ \E i \in 1..3 : Get(call.args.docs[i].metadata, "priority").t = "str"

\* the configurations C19 calls invalid
InvalidConfig(c) ==
  \/ c.hybrid_dense_weight = 0 \/ c.hybrid_sparse_weight = 0
  \/ c.bm25_b < 0 \/ c.bm25_b > 100
  \/ c.bm25_k1 <= 0
  \/ \E f \in {"k_law", "k_rule", "k_case", "search_multiplier", "case_candidate_k",
               "case_context_top_k", "rerank_max_documents", "rrf_k"} : c[f] <= 0
  \/ c.hybrid_fusion \notin {"rrf", "rank_sum", "weighted"}
  \/ c.bm25_algorithm \notin {"okapi", "plus"}
  \/ c.sparse_mode \notin {"candidates", "global", "auto"}

\* C19: constructing a RAGConfig raises for every invalid configuration
C19_InvalidConfigRejected ==
  (Called("RAGConfig") /\ InvalidConfig(call.args.config)) => call.ret = "ValueError"

\* C21: every request eventually completes (returns, or at least ends), even
\* when an external call never returns
C21_RequestCompletes == (pc = "normalize") ~> (pc \in {"done", "raised"})

\* C22: no step of a request changes a built index: its documents (content
\* and metadata), postings, document lengths and parameters stay as build
\* left them
C22_IndexReadOnly == [][pc # "idle" => _global_bm25' = _global_bm25]_vars

\* what the call of request rid returns when it runs alone on the pipeline as
\* build_global_bm25 left it
RunAlone(rid) ==
  _hybrid_fuse_per_source(config, IndicesBuilt(config, corpus_docs), requests[rid].source,
                          requests[rid].query, requests[rid].dense_docs).out

\* C23: whatever the interleaving, the list a request gets back (its order and
\* the annotations of its documents) is the list it gets when it runs alone
C23_RequestsIsolated ==
  \A rid \in ConcRequests :
    requests[rid].pc = "returned" => requests[rid].ret = RunAlone(rid)

\* what the candidate scorer returns for documents whose bodies are texts
CandidateScores(avail, q, texts) ==
  LET docs == [i \in 1..Len(texts) |-> Doc(texts[i], <<>>)]
  IN IF avail
     THEN _compute_bm25_scores_rank_bm25(q, docs, config.bm25_k1, config.bm25_b,
                                         config.bm25_max_doc_chars)
     ELSE _compute_bm25_scores(q, docs, config.bm25_k1, config.bm25_b,
                               config.bm25_max_doc_chars)

\* C24: for any query and list of strings the text scorer returns the score
\* vector the candidate scorer returns for documents whose bodies are those
\* strings (same k1, b, algorithm and character cap), with and without the
\* BM25 library.
C24_TextScorerEqualsCandidateScorer ==
  Called("_compute_bm25_scores_from_texts")
    => call.ret = [raised |-> "",
                   scores |-> CandidateScores(call.args.BM25_AVAILABLE, call.args.query,
                                              call.args.texts)]

\* the corpus of the index of the call, deduplicated as build does it
IndexedCorpus == _dedupe_docs(call.args.docs, config.dedupe_key_fields)

\* the scores of the candidate-level formula over that corpus
FormulaScores ==
  _compute_bm25_scores(call.args.query, IndexedCorpus, config.bm25_k1, config.bm25_b,
                       config.bm25_max_doc_chars)

\* the positions of the corpus whose document has a token of the query
Matching ==
  {i \in 1..Len(IndexedCorpus) :
     \E t \in SeqToSet(tokenize(call.args.query)) :
       CountIn(t, tokenize(_truncate(IndexedCorpus[i].page_content,
                                     config.bm25_max_doc_chars))) > 0}

\* C25: every (document, score) pair BM25InvertedIndex.search returns carries
\* the score the candidate-level formula gives that document over the same
\* deduplicated corpus with the same k1 and b, and when top_k is at least the
\* number of matching documents every omitted document scores zero under it.
C25_IndexScoresEqualCandidateFormula ==
  Called("BM25InvertedIndex.search") =>
    \E formula \in {FormulaScores} :
      /\ \A r \in 1..Len(call.ret) :
           \E i \in 1..Len(IndexedCorpus) :
             IndexedCorpus[i] = call.ret[r].doc /\ formula[i] = call.ret[r].score
      /\ call.args.top_k >= Cardinality(Matching) =>
           \A i \in 1..Len(IndexedCorpus) :
             (\A r \in 1..Len(call.ret) : call.ret[r].doc # IndexedCorpus[i]) => formula[i] = 0

\* a search with a repeated query term that returns two documents with
\* different scores and omits a third, top_k being no less than the matches
C25_Witness ==
  /\ Called("BM25InvertedIndex.search")
  /\ Len(call.ret) = 2
  /\ call.ret[1].score > call.ret[2].score
  /\ Len(IndexedCorpus) = 3
  /\ call.args.top_k >= Cardinality(Matching)
  /\ call.args.query = <<"a", " ", "a">>

\* C26: in one request the number of filtered case-index searches case
\* expansion issues never exceeds case_expand_top_n (k_case when unset), for
\* every accepted value of case_expand_top_n, and no case number is searched
\* more than once.
C26_CaseSearchesBounded ==
  /\ Len(observed.case_searches)
       <= (IF config.case_expand_top_n # None THEN config.case_expand_top_n.n
           ELSE config.k_case)
  /\ \A i, j \in 1..Len(observed.case_searches) :
       observed.case_searches[i] = observed.case_searches[j] => i = j

\* C27: with sparse_mode = global, per-source fusion for a source without a
\* built inverted index does not raise: no error leaves the fusion stage, the
\* request goes on, and that source's dense candidates are still returned.
C27_GlobalModeWithoutIndex ==
  [][(/\ pc = "fuse"
      /\ config.sparse_mode = "global"
      /\ \E source \in SeqToSet(Sources) : source \notin DOMAIN _global_bm25)
     => /\ pc' # "raised"
        /\ raised' = ""
        /\ \A source \in SeqToSet(Sources) \ DOMAIN _global_bm25 :
             \A i \in 1..Len(dense_docs[source]) :
               \E j \in 1..Len(dense_docs'[source]) :
                 dense_docs'[source][j].page_content = dense_docs[source][i].page_content]_vars

\* in auto mode a source whose fusion has run took the global path exactly
\* when build_global_bm25 was given documents for it before
AutoPathIffBuilt ==
  config.sparse_mode = "auto" =>
    \A source \in SeqToSet(Sources) :
      observed.path[source] # "" =>
        (observed.path[source] = "global" <=> source \in observed.built)

\* a call of build_global_bm25 leaves the index of every source it is given no
\* documents for as it was
BuildKeepsOthers ==
  (pc = "idle" /\ pc' = "idle") =>
    \A source \in DOMAIN _global_bm25 \ observed'.last_build :
      source \in DOMAIN _global_bm25' /\ _global_bm25'[source] = _global_bm25[source]

\* C28: in sparse_mode = auto, per-source fusion uses the global inverted index
\* for a source exactly when build_global_bm25 has built a non-empty index for
\* it before, and candidate-level BM25 otherwise, whatever was built for the
\* other sources; a later build_global_bm25 call without documents for a
\* source leaves that source's index in place.
C28_AutoModeUsesBuiltIndex == []AutoPathIffBuilt /\ [][BuildKeepsOthers]_vars

\* a request in auto mode that fused the law candidates on the candidate path
\* and the rule and case candidates with their indices
C28_Witness ==
  /\ config.sparse_mode = "auto"
  /\ observed.path = [law |-> "candidate", rule |-> "global", case |-> "global"]
  /\ observed.built = {"rule", "case"}
  /\ pc = "done"

\* the BM25 channels _dense_sparse_fuse computes under the configuration: the
\* body always, the title when enable_bm25_title (otherwise every title rank
\* is the placeholder n + 1000 of line 1122, see C11)
ChannelsOf(c) ==
  {[score |-> "__bm25_text_score", rank |-> "__bm25_text_rank"]}
    \cup (IF c.enable_bm25_title
          THEN {[score |-> "__bm25_title_score", rank |-> "__bm25_title_rank"]}
          ELSE {})

\* candidate-level fusion has ranked the candidates of the source
CandidateFusionRan(source) ==
  /\ Fused
  /\ observed.path[source] = "candidate"
  /\ config.enable_bm25
  /\ Len(dense_docs[source]) >= 2

\* C29: in the BM25-body and BM25-title channels of candidate-level fusion, of
\* two candidates with equal channel score the one with the lower dense rank
\* has the lower channel rank (so with no candidate matching the query the
\* channel ranks follow the dense ranks).
C29_TiesFollowDenseRank ==
  \A source \in SeqToSet(Sources) :
    CandidateFusionRan(source) =>
      \A ch \in ChannelsOf(config) :
        \A i, j \in 1..Len(dense_docs[source]) :
          LET x == dense_docs[source][i].metadata
              y == dense_docs[source][j].metadata
          IN (x[ch.score].n = y[ch.score].n /\ x["__dense_rank"].n < y["__dense_rank"].n)
               => x[ch.rank].n < y[ch.rank].n

\* candidate-level fusion of two case chunks none of which matches the query
\* in body or title: both channels score them 0 and 0
C29_Witness ==
  /\ CandidateFusionRan("case")
  /\ config.enable_bm25_title
  /\ \A i \in 1..2 :
       /\ dense_docs["case"][i].metadata["__bm25_text_score"].n = 0
       /\ dense_docs["case"][i].metadata["__bm25_title_score"].n = 0

\* the case number a document carries, as a str
CaseNoOf(d) == Str(Get(d.metadata, "case_no"))

\* C30: in every final list each document of the case source has a non-empty
\* case_no and no two of them share a case_no; a case chunk lacking case_no
\* never reaches the final list, whatever its position after fusion or rerank.
C30_FinalCasesNumbered ==
  Returned =>
    \A i \in 1..Len(final_docs) :
      SourceOf(final_docs[i]) = <<"case">> =>
        /\ Truthy(Get(final_docs[i].metadata, "case_no"))
        /\ CaseNoOf(final_docs[i]) # <<>>
        /\ \A j \in 1..Len(final_docs) :
             (j # i /\ SourceOf(final_docs[j]) = <<"case">>)
               => CaseNoOf(final_docs[j]) # CaseNoOf(final_docs[i])

\* a request whose selected case chunks start with one that has no case_no,
\* ahead of a chunk of a case: the final list holds that case alone
C30_Witness ==
  /\ Returned
  /\ Len(observed.case_ranked) = 2
  /\ observed.case_ranked[1] = <<>>
  /\ observed.case_ranked[2] # <<>>
  /\ Cardinality({i \in 1..Len(final_docs) : SourceOf(final_docs[i]) = <<"case">>}) = 1

====
